---------------------------- MODULE Spec2Model ----------------------------
(***************************************************************************)
(* Soil-Mind: the sliding-window sensor history and the hysteresis-gated   *)
(* pump controller of the irrigation sketches, the threshold fallback of   *)
(* the scenario sketch and the inference call of the deployment-test       *)
(* sketch.                                                                 *)
(*                                                                         *)
(* Representation.  Times are milliseconds of the millis() counter.        *)
(* Probabilities are hundredths (0.70 is 70, the -1 failure value is       *)
(* -100).  Temperatures are whole degrees Celsius (tenths of a degree in    *)
(* the scenario sketch, whose readings have one decimal), moisture values  *)
(* are whole units of the training scale.                                  *)
(***************************************************************************)
EXTENDS Integers, Sequences, FiniteSets, TLC

VARIABLES
    cfg,              \* timing configuration (the #defines of the sketch)
    env,              \* the values sensors and inference collaborator can deliver
    pc,               \* "setup" before setup() has run, then "loop"; "ctl", "hist",
                      \* "scenario", "deploy" where another part is driven
    clock,            \* value of millis() at its last read
    temperature,      \* SensorHistory::temperature[HISTORY_SIZE]
    moisture,         \* SensorHistory::moisture[HISTORY_SIZE]
    writeIndex,       \* SensorHistory::writeIndex
    count,            \* SensorHistory::count
    pump,             \* PumpController {isRunning, lastOnTime, lastOffTime, runStartTime}
    relay,            \* level of RELAY_PIN
    led,              \* level of LED_PIN
    modelReady,       \* bool modelReady
    lastReadingTime,  \* unsigned long lastReadingTime
    probability,      \* probability handed to makeIrrigationDecision in the last cycle
    log,              \* branches taken / messages printed by the last operation
    scenHistory,      \* SensorHistory of the scenario sketch {temperature, soilmoisture, index, count}
    added,            \* samples passed to addReading since the last init(), oldest first
    calls,            \* <<probability, now>> of the decision cycles run by the harness
    scen,             \* the scenario sketch: reading, decision and outputs of its last cycle
    tfl,              \* the deployment-test sketch: position and last predictIrrigation call
    plant,            \* the plant-health sketch: position, header constants and last predict call
    mono,             \* the production sketch on a clock that never wraps: the time since
                      \* power-on and the times at which lastOffTime, runStartTime and
                      \* lastReadingTime were recorded
    hal               \* the PWM module of the interfacing layer: the build switch, the
                      \* channels of the PWM peripheral and the last call made

vars == <<cfg, env, pc, clock, temperature, moisture, writeIndex, count, pump, relay,
          led, modelReady, lastReadingTime, probability, log, scenHistory, added, calls,
          scen, tfl, plant, mono, hal>>

histVars == <<temperature, moisture, writeIndex, count>>
pumpVars == <<pump, relay, led>>
otherSketches == <<scen, tfl, plant, hal>>

-----------------------------------------------------------------------------
(* Program constants                                                       *)

READING_INTERVAL_MS == 60000
MIN_PUMP_ON_TIME    == 30000
MIN_PUMP_OFF_TIME   == 60000
MAX_PUMP_RUN_TIME   == 300000
HISTORY_SIZE        == 4
THRESHOLD_IRRIGATE  == 70
THRESHOLD_STOP      == 30
MOISTURE_AIR_VALUE   == 3100
MOISTURE_WATER_VALUE == 1400
TRAINING_SCALE_MIN   == 100
TRAINING_SCALE_MAX   == 400
SETUP_DELAY_MS       == 1000

LOW  == 0
HIGH == 1

\* the value of scen / tfl / plant / hal while another program is the one on the board
NotRunning == [pc |-> "off"]

\* the clock that never wraps at power-on
MonoInit == [now |-> 0, lastOffTime |-> 0, runStartTime |-> 0, lastReadingTime |-> 0]

\* Width of the millis() counter in the model.  unsigned long has 32 bits on
\* the target; TLC's integers are 32-bit signed, so the counter of the model
\* has 30 bits.  Every subtraction of two counter values goes through USub.
ClockBits == 30

\* The configuration the production sketch is compiled with.
ProductionCfg ==
    [ readingInterval |-> READING_INTERVAL_MS,
      minOnTime       |-> MIN_PUMP_ON_TIME,
      minOffTime      |-> MIN_PUMP_OFF_TIME,
      maxRunTime      |-> MAX_PUMP_RUN_TIME,
      clockModulus    |-> 2^ClockBits ]

\* a - b in unsigned arithmetic of the counter's width
USub(a, b) == (a - b) % cfg.clockModulus

\* a + b in unsigned arithmetic of the counter's width
UAdd(a, b) == (a + b) % cfg.clockModulus

-----------------------------------------------------------------------------
(* SensorHistory                                                           *)

Slots == 0 .. (HISTORY_SIZE - 1)

\* SensorHistory as a value: the four fields of the struct
History == [temperature |-> temperature, moisture |-> moisture,
            writeIndex |-> writeIndex, count |-> count]

\* init()
HistoryInit ==
    [temperature |-> [i \in Slots |-> 0], moisture |-> [i \in Slots |-> 0],
     writeIndex |-> 0, count |-> 0]

\* addReading with the saturation of count left out
addReading_unbounded(h, temp, moist) ==
    [temperature |-> [h.temperature EXCEPT ![h.writeIndex] = temp],
     moisture    |-> [h.moisture EXCEPT ![h.writeIndex] = moist],
     writeIndex  |-> (h.writeIndex + 1) % HISTORY_SIZE,
     count       |-> h.count + 1]

\* addReading(temp, moist)
addReading(h, temp, moist) ==
    [temperature |-> [h.temperature EXCEPT ![h.writeIndex] = temp],
     moisture    |-> [h.moisture EXCEPT ![h.writeIndex] = moist],
     writeIndex  |-> (h.writeIndex + 1) % HISTORY_SIZE,
     count       |-> IF h.count < HISTORY_SIZE THEN h.count + 1 ELSE h.count]

\* the index expression counted from writeIndex instead of writeIndex - 1
StepsAgoIndex_offByOne(h, stepsAgo) ==
    (h.writeIndex - stepsAgo + HISTORY_SIZE) % HISTORY_SIZE

\* the index expression of getTemp / getMoisture
StepsAgoIndex(h, stepsAgo) ==
    (h.writeIndex - 1 - stepsAgo + HISTORY_SIZE) % HISTORY_SIZE

\* getTemp(stepsAgo)
getTemp(h, stepsAgo) ==
    IF stepsAgo >= h.count THEN h.temperature[0]
    ELSE h.temperature[StepsAgoIndex(h, stepsAgo)]

\* getMoisture(stepsAgo)
getMoisture(h, stepsAgo) ==
    IF stepsAgo >= h.count THEN h.moisture[0]
    ELSE h.moisture[StepsAgoIndex(h, stepsAgo)]

\* sum of the physical slots 0 .. n-1 of an array (the for loop of the means)
RECURSIVE SumSlots(_, _)
SumSlots(array, n) == IF n = 0 THEN 0 ELSE SumSlots(array, n - 1) + array[n - 1]

\* A mean is a float quotient sum / count with count in 1 .. HISTORY_SIZE.  The
\* model holds it exactly, as a whole number of twelfths (12 is the least
\* common multiple of 1 .. 4).
MeanDenominator == 12

\* getTempMean(), in twelfths
getTempMean(h) ==
    IF h.count = 0 THEN 0
    ELSE (SumSlots(h.temperature, h.count) * MeanDenominator) \div h.count

\* getMoistureMean() whose loop stops one slot early
getMoistureMean_oneShort(h) ==
    IF h.count = 0 THEN 0
    ELSE (SumSlots(h.moisture, h.count - 1) * MeanDenominator) \div h.count

\* getMoistureMean(), in twelfths
getMoistureMean(h) ==
    IF h.count = 0 THEN 0
    ELSE (SumSlots(h.moisture, h.count) * MeanDenominator) \div h.count

\* getTempTrend() with the oldest sample taken from physical slot 0
getTempTrend_slot0(h) ==
    IF h.count < 2 THEN 0 ELSE getTemp(h, 0) - h.temperature[0]

\* getTempTrend()
getTempTrend(h) ==
    IF h.count < 2 THEN 0 ELSE getTemp(h, 0) - getTemp(h, h.count - 1)

\* getMoistureTrend()
getMoistureTrend(h) ==
    IF h.count < 2 THEN 0 ELSE getMoisture(h, 0) - getMoisture(h, h.count - 1)

\* isReady() that answers one reading early
isReady_oneEarly(h) == h.count >= HISTORY_SIZE - 1

\* isReady() that always answers yes
isReady_noGate(h) == h.count >= 0

\* isReady()
isReady(h) == h.count >= HISTORY_SIZE

\* SensorHistory of the scenario sketch: init()
ScenHistoryInit ==
    [temperature |-> [i \in Slots |-> 0], soilmoisture |-> [i \in Slots |-> 0],
     index |-> 0, count |-> 0]

\* SensorHistory of the scenario sketch: addReading(temp, moisture)
ScenAddReading(h, temp, moist) ==
    [temperature  |-> [h.temperature EXCEPT ![h.index] = temp],
     soilmoisture |-> [h.soilmoisture EXCEPT ![h.index] = moist],
     index        |-> (h.index + 1) % HISTORY_SIZE,
     count        |-> IF h.count < HISTORY_SIZE THEN h.count + 1 ELSE h.count]

\* SensorHistory of the scenario sketch: the index expression of getTemp /
\* getMoisture (no range check on stepsAgo)
ScenStepsAgoIndex(h, stepsAgo) ==
    (h.index - 1 - stepsAgo + HISTORY_SIZE) % HISTORY_SIZE

\* getTemp of the scenario sketch counted from index instead of index - 1
ScenGetTemp_offByOne(h, stepsAgo) ==
    h.temperature[(h.index - stepsAgo + HISTORY_SIZE) % HISTORY_SIZE]

\* SensorHistory of the scenario sketch: getTemp(stepsAgo)
ScenGetTemp(h, stepsAgo) == h.temperature[ScenStepsAgoIndex(h, stepsAgo)]

\* SensorHistory of the scenario sketch: getMoisture(stepsAgo)
ScenGetMoisture(h, stepsAgo) == h.soilmoisture[ScenStepsAgoIndex(h, stepsAgo)]

\* SensorHistory of the scenario sketch: tempMean(), in twelfths
tempMean(h) ==
    IF h.count > 0
    THEN (SumSlots(h.temperature, h.count) * MeanDenominator) \div h.count
    ELSE 0

\* SensorHistory of the scenario sketch: moistureMean(), in twelfths
moistureMean(h) ==
    IF h.count > 0
    THEN (SumSlots(h.soilmoisture, h.count) * MeanDenominator) \div h.count
    ELSE 0

\* SensorHistory of the scenario sketch: tempTrend()
tempTrend(h) ==
    IF h.count < 2 THEN 0 ELSE ScenGetTemp(h, 0) - ScenGetTemp(h, h.count - 1)

\* SensorHistory of the scenario sketch: moistureTrend()
moistureTrend(h) ==
    IF h.count < 2 THEN 0 ELSE ScenGetMoisture(h, 0) - ScenGetMoisture(h, h.count - 1)

\* SensorHistory of the scenario sketch: isReady()
ScenIsReady(h) == h.count >= HISTORY_SIZE

-----------------------------------------------------------------------------
(* PumpController.  A controller state m is the struct together with the   *)
(* two output pins its methods drive and the messages they print.          *)

\* init()
PumpInit == [isRunning |-> FALSE, lastOnTime |-> 0, lastOffTime |-> 0, runStartTime |-> 0]

\* canTurnOn without the minimum off time
canTurnOn_noGuard(p, now) == TRUE

\* canTurnOn(now)
canTurnOn(p, now) ==
    IF USub(now, p.lastOffTime) < cfg.minOffTime THEN FALSE ELSE TRUE

\* shouldForceOff(now)
shouldForceOff(p, now) ==
    IF p.isRunning /\ USub(now, p.runStartTime) > cfg.maxRunTime THEN TRUE ELSE FALSE

\* turnOn that does not record lastOnTime
turnOn_noLastOn(m, now) ==
    IF ~m.pump.isRunning
    THEN [m EXCEPT !.pump  = [@ EXCEPT !.isRunning = TRUE, !.runStartTime = now],
                   !.relay = HIGH,
                   !.led   = HIGH,
                   !.log   = @ \cup {"PUMP ON"}]
    ELSE m

\* turnOn(now)
turnOn(m, now) ==
    IF ~m.pump.isRunning
    THEN [m EXCEPT !.pump  = [@ EXCEPT !.isRunning = TRUE, !.runStartTime = now,
                                       !.lastOnTime = now],
                   !.relay = HIGH,
                   !.led   = HIGH,
                   !.log   = @ \cup {"PUMP ON"}]
    ELSE m

\* turnOff without the minimum on time
turnOff_noMinOn(m, now) ==
    IF m.pump.isRunning
    THEN [m EXCEPT !.pump  = [@ EXCEPT !.isRunning = FALSE, !.lastOffTime = now],
                   !.relay = LOW,
                   !.led   = LOW,
                   !.log   = @ \cup {"PUMP OFF"}]
    ELSE m

\* turnOff that does not record lastOffTime
turnOff_noLastOff(m, now) ==
    IF m.pump.isRunning /\ USub(now, m.pump.runStartTime) >= cfg.minOnTime
    THEN [m EXCEPT !.pump  = [@ EXCEPT !.isRunning = FALSE],
                   !.relay = LOW,
                   !.led   = LOW,
                   !.log   = @ \cup {"PUMP OFF"}]
    ELSE m

\* turnOff that leaves the status LED as it is
turnOff_relayOnly(m, now) ==
    IF m.pump.isRunning /\ USub(now, m.pump.runStartTime) >= cfg.minOnTime
    THEN [m EXCEPT !.pump  = [@ EXCEPT !.isRunning = FALSE, !.lastOffTime = now],
                   !.relay = LOW,
                   !.log   = @ \cup {"PUMP OFF"}]
    ELSE m

\* turnOff(now)
turnOff(m, now) ==
    IF m.pump.isRunning /\ USub(now, m.pump.runStartTime) >= cfg.minOnTime
    THEN [m EXCEPT !.pump  = [@ EXCEPT !.isRunning = FALSE, !.lastOffTime = now],
                   !.relay = LOW,
                   !.led   = LOW,
                   !.log   = @ \cup {"PUMP OFF"}]
    ELSE m

\* the message of the forced-off branch of makeIrrigationDecision
ForcedTag == "Max run time exceeded - forcing pump OFF"

\* makeIrrigationDecision with the thresholds compared non-strictly
makeIrrigationDecision_nonStrict(m, prob, now) ==
    IF shouldForceOff(m.pump, now)
    THEN turnOff([m EXCEPT !.log = @ \cup {ForcedTag}], now)
    ELSE IF ~m.pump.isRunning /\ prob >= THRESHOLD_IRRIGATE
    THEN IF canTurnOn(m.pump, now)
         THEN turnOn([m EXCEPT !.log = @ \cup {"High probability detected - starting irrigation"}], now)
         ELSE [m EXCEPT !.log = @ \cup {"Waiting for minimum off time"}]
    ELSE IF m.pump.isRunning /\ prob <= THRESHOLD_STOP
    THEN turnOff([m EXCEPT !.log = @ \cup {"Low probability - stopping irrigation"}], now)
    ELSE m

\* makeIrrigationDecision(probability, now)
makeIrrigationDecision(m, prob, now) ==
    IF shouldForceOff(m.pump, now)
    THEN turnOff([m EXCEPT !.log = @ \cup {ForcedTag}], now)
    ELSE IF ~m.pump.isRunning /\ prob > THRESHOLD_IRRIGATE
    THEN IF canTurnOn(m.pump, now)
         THEN turnOn([m EXCEPT !.log = @ \cup {"High probability detected - starting irrigation"}], now)
         ELSE [m EXCEPT !.log = @ \cup {"Waiting for minimum off time"}]
    ELSE IF m.pump.isRunning /\ prob < THRESHOLD_STOP
    THEN turnOff([m EXCEPT !.log = @ \cup {"Low probability - stopping irrigation"}], now)
    ELSE m

\* loop() without its closing safety check
SafetyCheck_absent(m, now) == m

\* the safety check that ends loop()
SafetyCheck(m, now) ==
    IF shouldForceOff(m.pump, now)
    THEN turnOff([m EXCEPT !.log = @ \cup {"safety check"}], now)
    ELSE m

\* the controller state the variables hold, with nothing printed yet
Controller == [pump |-> pump, relay |-> relay, led |-> led, log |-> {}]

-----------------------------------------------------------------------------
(* Sensors, validation, inference and fallback of the production sketch    *)

\* readTemperature(): the DHT22 read is NaN (isNan) or a temperature
readTemperature(isNan, temp) == IF isNan THEN -999 ELSE temp

\* readSoilMoisturePercent() for an averaged ADC value raw
readSoilMoisturePercent(raw) ==
    LET percent == ((MOISTURE_AIR_VALUE - raw) * 100)
                       \div (MOISTURE_AIR_VALUE - MOISTURE_WATER_VALUE)
    IN  IF percent < 0 THEN 0 ELSE IF percent > 100 THEN 100 ELSE percent

\* readSoilMoistureScaled() for an averaged ADC value raw
readSoilMoistureScaled(raw) ==
    TRAINING_SCALE_MIN
        + (readSoilMoisturePercent(raw) * (TRAINING_SCALE_MAX - TRAINING_SCALE_MIN)) \div 100

\* validateSensorReadings without the lower temperature bound
validateSensorReadings_noLowerBound(temp, moist) ==
    IF temp > 60 THEN FALSE
    ELSE IF moist < 50 \/ moist > 500 THEN FALSE
    ELSE TRUE

\* validateSensorReadings(temp, moisture)
validateSensorReadings(temp, moist) ==
    IF temp < -10 \/ temp > 60 THEN FALSE
    ELSE IF moist < 50 \/ moist > 500 THEN FALSE
    ELSE TRUE

\* what validateSensorReadings(temp, moisture) prints
validateMessages(temp, moist) ==
    IF temp < -10 \/ temp > 60 THEN {"Invalid temperature"}
    ELSE IF moist < 50 \/ moist > 500 THEN {"Invalid moisture"}
    ELSE {}

\* fallbackDecision(temp, moisture)
fallbackDecision(temp, moist) ==
    IF temp < 28 THEN moist < 256
    ELSE IF temp < 30 THEN moist < 237
    ELSE IF temp < 32 THEN moist < 229
    ELSE moist < 240

\* runInference(): ready is modelReady, runOk the result of modelRunInference(),
\* out the value of modelGetOutput(0)
runInference(ready, h, runOk, out) ==
    IF ~ready THEN -100
    ELSE IF ~isReady(h) THEN -100
    ELSE IF ~runOk THEN -100
    ELSE out

\* shouldIrrigate ? 0.1 : 0.9
FallbackProbability_swapped(temp, moist) == IF fallbackDecision(temp, moist) THEN 10 ELSE 90

\* shouldIrrigate ? 0.9 : 0.5
FallbackProbability_deadBand(temp, moist) == IF fallbackDecision(temp, moist) THEN 90 ELSE 50

\* shouldIrrigate ? 0.9 : 0.1
FallbackProbability(temp, moist) == IF fallbackDecision(temp, moist) THEN 90 ELSE 10

-----------------------------------------------------------------------------
(* Inputs of the production sketch                                         *)

\* time between two reads of millis() by loop()
PassSteps == {0, MIN_PUMP_ON_TIME, READING_INTERVAL_MS}

\* the model follows loop() for this many reading intervals after setup()
MaxIntervals == 10

MaxTime == SETUP_DELAY_MS + MaxIntervals * READING_INTERVAL_MS

\* The environment of the production sketch:
\*   dhtTemps      what the DHT22 can deliver besides NaN: a temperature in
\*                 range and one out of range
\*   adcValues     averaged ADC values of the moisture pin (scaled: 235)
\*   modelOutputs  what modelGetOutput(0) can deliver, in hundredths
\*   until         the time since power-on up to which the model follows loop()
\*   setupMillis   what millis() can return in the last statement of setup()
SketchEnv ==
    [ dhtTemps     |-> {29, 70},
      adcValues    |-> {2335},
      modelOutputs |-> {-50, 10, 50, 90, 150},
      until        |-> MaxTime,
      setupMillis  |-> {SETUP_DELAY_MS} ]

-----------------------------------------------------------------------------
(* The production sketch: setup() and loop()                               *)

NoProbability == -1000

\* setup() that takes the model as ready whenever model data is present
Setup_ignoreInitResult(modelLen, initOk) ==
    /\ pc = "setup"
    /\ pc' = "loop"
    /\ clock' \in env.setupMillis
    /\ relay' = LOW
    /\ led' = LOW
    /\ temperature' = HistoryInit.temperature
    /\ moisture' = HistoryInit.moisture
    /\ writeIndex' = HistoryInit.writeIndex
    /\ count' = HistoryInit.count
    /\ pump' = PumpInit
    /\ modelReady' = (modelLen > 0)
    /\ lastReadingTime' = USub(clock', cfg.readingInterval)
    /\ log' = {"setup",
               IF modelLen > 0
               THEN IF initOk THEN "Model loaded successfully!"
                    ELSE "Model initialization failed!"
               ELSE "No model data found!"}
    /\ mono' = [now |-> clock', lastOffTime |-> 0, runStartTime |-> 0,
                lastReadingTime |-> clock' - cfg.readingInterval]
    /\ UNCHANGED <<cfg, env, probability, scenHistory, added, calls, otherSketches>>

\* setup() that ends with lastReadingTime = millis()
Setup_noBackdate(modelLen, initOk) ==
    /\ pc = "setup"
    /\ pc' = "loop"
    /\ clock' \in env.setupMillis
    /\ relay' = LOW
    /\ led' = LOW
    /\ temperature' = HistoryInit.temperature
    /\ moisture' = HistoryInit.moisture
    /\ writeIndex' = HistoryInit.writeIndex
    /\ count' = HistoryInit.count
    /\ pump' = PumpInit
    /\ modelReady' = IF modelLen > 0 THEN initOk ELSE FALSE
    /\ lastReadingTime' = clock'
    /\ log' = {"setup",
               IF modelLen > 0
               THEN IF initOk THEN "Model loaded successfully!"
                    ELSE "Model initialization failed!"
               ELSE "No model data found!"}
    /\ mono' = [now |-> clock', lastOffTime |-> 0, runStartTime |-> 0,
                lastReadingTime |-> clock' - cfg.readingInterval]
    /\ UNCHANGED <<cfg, env, probability, scenHistory, added, calls, otherSketches>>

\* setup(): modelLen is irrigation_model_len, initOk the result of modelInit()
Setup(modelLen, initOk) ==
    /\ pc = "setup"
    /\ pc' = "loop"
    /\ clock' \in env.setupMillis
    /\ relay' = LOW
    /\ led' = LOW
    /\ temperature' = HistoryInit.temperature
    /\ moisture' = HistoryInit.moisture
    /\ writeIndex' = HistoryInit.writeIndex
    /\ count' = HistoryInit.count
    /\ pump' = PumpInit
    /\ modelReady' = IF modelLen > 0 THEN initOk ELSE FALSE
    /\ lastReadingTime' = USub(clock', cfg.readingInterval)
    /\ log' = {"setup",
               IF modelLen > 0
               THEN IF initOk THEN "Model loaded successfully!"
                    ELSE "Model initialization failed!"
               ELSE "No model data found!"}
    /\ mono' = [now |-> clock', lastOffTime |-> 0, runStartTime |-> 0,
                lastReadingTime |-> clock' - cfg.readingInterval]
    /\ UNCHANGED <<cfg, env, probability, scenHistory, added, calls, otherSketches>>

\* LoopResult that leaves lastReadingTime alone when the reading is invalid
LoopResult_retryInvalid(now, isNan, dhtTemp, raw, runOk, out) ==
    LET m0 == Controller
        h0 == History
        keep == [h |-> h0, m |-> m0, lastReadingTime |-> lastReadingTime,
                 probability |-> NoProbability]
    IN  IF USub(now, lastReadingTime) >= cfg.readingInterval
        THEN LET temp  == readTemperature(isNan, dhtTemp)
                 moist == readSoilMoistureScaled(raw)
                 read  == {"reading"}
                              \cup (IF isNan THEN {"DHT22 read error!"} ELSE {})
                              \cup validateMessages(temp, moist)
             IN  IF ~validateSensorReadings(temp, moist)
                 THEN \* return: the rest of the pass is skipped
                      [keep EXCEPT !.m.log = read \cup {"Invalid readings - skipping this cycle"}]
                 ELSE LET h1 == addReading(h0, temp, moist)
                      IN  IF isReady(h1)
                          THEN LET inferred == IF modelReady
                                               THEN runInference(modelReady, h1, runOk, out)
                                               ELSE NoProbability
                                   failed == modelReady /\ inferred < 0
                                   prob == IF modelReady /\ ~failed THEN inferred
                                           ELSE FallbackProbability(temp, moist)
                                   said == IF ~modelReady
                                           THEN {"Using fallback rules (no model)..."}
                                           ELSE (IF runOk THEN {"INFERENCE RESULTS"}
                                                 ELSE {"Inference failed!"})
                                                \cup (IF failed THEN {"Using fallback rules..."}
                                                      ELSE {})
                                   m1 == makeIrrigationDecision(
                                             [m0 EXCEPT !.log = read \cup said], prob, now)
                               IN  [h |-> h1, m |-> SafetyCheck(m1, now),
                                    lastReadingTime |-> now, probability |-> prob]
                          ELSE [h |-> h1,
                                m |-> SafetyCheck([m0 EXCEPT !.log = read \cup {"Collecting data"}], now),
                                lastReadingTime |-> now, probability |-> NoProbability]
        ELSE [keep EXCEPT !.m = SafetyCheck(m0, now)]

\* The result of one pass of loop() that reads millis() as now:
\* the new history, controller, lastReadingTime and probability.
LoopResult(now, isNan, dhtTemp, raw, runOk, out) ==
    LET m0 == Controller
        h0 == History
        keep == [h |-> h0, m |-> m0, lastReadingTime |-> lastReadingTime,
                 probability |-> NoProbability]
    IN  IF USub(now, lastReadingTime) >= cfg.readingInterval
        THEN LET temp  == readTemperature(isNan, dhtTemp)
                 moist == readSoilMoistureScaled(raw)
                 read  == {"reading"}
                              \cup (IF isNan THEN {"DHT22 read error!"} ELSE {})
                              \cup validateMessages(temp, moist)
             IN  IF ~validateSensorReadings(temp, moist)
                 THEN \* return: the rest of the pass is skipped
                      [keep EXCEPT !.lastReadingTime = now,
                                   !.m.log = read \cup {"Invalid readings - skipping this cycle"}]
                 ELSE LET h1 == addReading(h0, temp, moist)
                      IN  IF isReady(h1)
                          THEN LET inferred == IF modelReady
                                               THEN runInference(modelReady, h1, runOk, out)
                                               ELSE NoProbability
                                   failed == modelReady /\ inferred < 0
                                   prob == IF modelReady /\ ~failed THEN inferred
                                           ELSE FallbackProbability(temp, moist)
                                   said == IF ~modelReady
                                           THEN {"Using fallback rules (no model)..."}
                                           ELSE (IF runOk THEN {"INFERENCE RESULTS"}
                                                 ELSE {"Inference failed!"})
                                                \cup (IF failed THEN {"Using fallback rules..."}
                                                      ELSE {})
                                   m1 == makeIrrigationDecision(
                                             [m0 EXCEPT !.log = read \cup said], prob, now)
                               IN  [h |-> h1, m |-> SafetyCheck(m1, now),
                                    lastReadingTime |-> now, probability |-> prob]
                          ELSE [h |-> h1,
                                m |-> SafetyCheck([m0 EXCEPT !.log = read \cup {"Collecting data"}], now),
                                lastReadingTime |-> now, probability |-> NoProbability]
        ELSE [keep EXCEPT !.m = SafetyCheck(m0, now)]

\* the variables after a pass of loop() with result r at time now
LoopAssign(now, r) ==
    /\ clock' = now
    /\ temperature' = r.h.temperature
    /\ moisture' = r.h.moisture
    /\ writeIndex' = r.h.writeIndex
    /\ count' = r.h.count
    /\ pump' = r.m.pump
    /\ relay' = r.m.relay
    /\ led' = r.m.led
    /\ log' = r.m.log
    /\ lastReadingTime' = r.lastReadingTime
    /\ probability' = r.probability

\* the clock that never wraps after a pass with result r, d ms after the last:
\* it records the time wherever the pass assigned now to a timestamp
MonoAfter(d, r) ==
    [now             |-> mono.now + d,
     lastOffTime     |-> IF pump.isRunning /\ ~r.m.pump.isRunning
                         THEN mono.now + d ELSE mono.lastOffTime,
     runStartTime    |-> IF ~pump.isRunning /\ r.m.pump.isRunning
                         THEN mono.now + d ELSE mono.runStartTime,
     lastReadingTime |-> IF USub(UAdd(clock, d), lastReadingTime) >= cfg.readingInterval
                         THEN mono.now + d ELSE mono.lastReadingTime]

\* one pass of loop(), d ms after the previous read of millis()
LoopPass(d, isNan, dhtTemp, raw, runOk, out) ==
    /\ pc = "loop"
    /\ mono.now + d <= env.until
    /\ \E r \in {LoopResult(UAdd(clock, d), isNan, dhtTemp, raw, runOk, out)} :
           /\ LoopAssign(UAdd(clock, d), r)
           /\ mono' = MonoAfter(d, r)
    /\ UNCHANGED <<cfg, env, pc, modelReady, scenHistory, added, calls, otherSketches>>

\* the sensor values a pass reads: none unless a reading is due
SensorInputs(now) ==
    IF USub(now, lastReadingTime) >= cfg.readingInterval
    THEN [isNan : BOOLEAN, dhtTemp : env.dhtTemps, raw : env.adcValues]
    ELSE {[isNan |-> FALSE, dhtTemp |-> 0, raw |-> 0]}

\* the results the inference collaborator gives in a pass: none unless
\* runInference() reaches modelRunInference()
InferenceInputs(now, s) ==
    IF /\ USub(now, lastReadingTime) >= cfg.readingInterval
       /\ validateSensorReadings(readTemperature(s.isNan, s.dhtTemp),
                                 readSoilMoistureScaled(s.raw))
       /\ count >= HISTORY_SIZE - 1
       /\ modelReady
    THEN [runOk : BOOLEAN, out : env.modelOutputs]
    ELSE {[runOk |-> FALSE, out |-> 0]}

Loop ==
    \E d \in PassSteps :
        \E s \in SensorInputs(UAdd(clock, d)) :
            \E i \in InferenceInputs(UAdd(clock, d), s) :
                LoopPass(d, s.isNan, s.dhtTemp, s.raw, i.runOk, i.out)

SetupStep == \E modelLen \in {0, 1}, initOk \in BOOLEAN : Setup(modelLen, initOk)

\* power-on: nothing has run; globals hold their initialisers
PowerOn ==
    /\ cfg = ProductionCfg
    /\ pc = "setup"
    /\ clock = 0
    /\ temperature = [i \in Slots |-> 0]
    /\ moisture = [i \in Slots |-> 0]
    /\ writeIndex = 0
    /\ count = 0
    /\ pump = PumpInit
    /\ relay = LOW
    /\ led = LOW
    /\ modelReady = FALSE
    /\ lastReadingTime = 0
    /\ probability = NoProbability
    /\ log = {}
    /\ scenHistory = ScenHistoryInit
    /\ added = <<>>
    /\ calls = <<>>
    /\ scen = NotRunning
    /\ tfl = NotRunning
    /\ plant = NotRunning
    /\ hal = NotRunning
    /\ mono = MonoInit

Init == env = SketchEnv /\ PowerOn

Next == SetupStep \/ Loop

Spec == Init /\ [][Next]_vars

\* Environments with other sensor values: one temperature the validation
\* accepts (the ends of the accepted range, and one on either side of the
\* fallback's 30 degree band edge), two it rejects, and one ADC value
\* (2335 gives 235 on the training scale; 4095, drier than the dry
\* calibration point, is constrained to 100).
SketchReadings == { <<-10, 2335>>, <<31, 2335>>, <<60, 2335>>, <<29, 4095>> }

SketchEnvs ==
    { [ dhtTemps     |-> {r[1], -11, 61},
        adcValues    |-> {r[2]},
        modelOutputs |-> SketchEnv.modelOutputs,
        until        |-> SketchEnv.until,
        setupMillis  |-> SketchEnv.setupMillis ] : r \in SketchReadings }

InitEnv == env \in SketchEnvs /\ PowerOn

\* the production sketch in each of the environments
SpecEnv == InitEnv /\ [][Next]_vars

\* A long session, joined shortly before the counter wraps: since setup()
\* every reading has been rejected, the last one at WrapStart, so the
\* history is empty and the pump has never run (its timestamps hold the 0
\* of init()).
WrapLead == 5

WrapStart == 2^ClockBits - WrapLead * READING_INTERVAL_MS

InitWrap ==
    /\ cfg = ProductionCfg
    /\ env = [SketchEnv EXCEPT !.until = WrapStart + MaxIntervals * READING_INTERVAL_MS]
    /\ pc = "loop"
    /\ clock = WrapStart
    /\ temperature = HistoryInit.temperature
    /\ moisture = HistoryInit.moisture
    /\ writeIndex = HistoryInit.writeIndex
    /\ count = HistoryInit.count
    /\ pump = PumpInit
    /\ relay = LOW
    /\ led = LOW
    /\ modelReady \in BOOLEAN
    /\ lastReadingTime = WrapStart
    /\ probability = NoProbability
    /\ log = {}
    /\ scenHistory = ScenHistoryInit
    /\ added = <<>>
    /\ calls = <<>>
    /\ scen = NotRunning
    /\ tfl = NotRunning
    /\ plant = NotRunning
    /\ hal = NotRunning
    /\ mono = [MonoInit EXCEPT !.now = WrapStart, !.lastReadingTime = WrapStart]

NextWrap == Loop

\* the production sketch across the wrap of the counter
SpecWrap == InitWrap /\ [][NextWrap]_vars

\* The environment the shut-off of the pump is followed in, the one that
\* keeps the pump running longest: a sensor that fails or delivers a reading
\* calling for irrigation, a model that fails or delivers a probability
\* above THRESHOLD_IRRIGATE
LiveEnv == [SketchEnv EXCEPT !.dhtTemps = {29}, !.modelOutputs = {90}]

InitLive == env = LiveEnv /\ PowerOn

\* a pass of loop() in which no reading is due: it goes straight to the
\* safety check
IdlePass == Loop /\ "reading" \notin log'

\* The production sketch with its scheduling: loop() keeps being executed
\* and the clock advances; a pass ends in delay(100) or returns at once, far
\* less than READING_INTERVAL_MS, so passes in which no reading is due keep
\* coming between those that take one.
SpecLive ==
    /\ InitLive
    /\ [][Next]_vars
    /\ WF_vars(Loop /\ clock' # clock)
    /\ SF_vars(IdlePass)

\* The production sketch with setup() ending at other values of millis():
\* below, at and above READING_INTERVAL_MS, and at the last value before the
\* counter wraps.  loop() is followed for BootIntervals reading intervals.
BootIntervals == 2

BootTimes ==
    {SETUP_DELAY_MS, READING_INTERVAL_MS - 1, READING_INTERVAL_MS,
     READING_INTERVAL_MS + 1, 2^ClockBits - 1}

InitBoot ==
    /\ env \in { [SketchEnv EXCEPT !.setupMillis = {t},
                                   !.until = t + BootIntervals * READING_INTERVAL_MS]
                 : t \in BootTimes }
    /\ PowerOn

SpecBoot == InitBoot /\ [][Next]_vars

-----------------------------------------------------------------------------
(* The controller driven on its own: makeIrrigationDecision called on a    *)
(* freshly initialised PumpController with chosen probabilities at chosen  *)
(* times.                                                                  *)

\* probabilities handed to makeIrrigationDecision, in hundredths
CtlProbabilities == {10, 30, 50, 70, 90}

\* time between two decision cycles
CtlSteps == {0, 1, 2, cfg.minOnTime - 1, cfg.minOffTime, cfg.maxRunTime + 1}

\* decision cycles the harness runs
MaxCalls == 3

\* configurations other than the production one: with maxRunTime above and
\* below minOnTime
TestCfgs ==
    [ readingInterval : {4}, minOnTime : {2, 6}, minOffTime : {3},
      maxRunTime : {4, 9}, clockModulus : {2^ClockBits} ]

\* the controller after setup(): pins LOW, pump.init()
InitController ==
    /\ pc = "ctl"
    /\ env = SketchEnv
    /\ clock = 0
    /\ pump = PumpInit
    /\ relay = LOW
    /\ led = LOW
    /\ probability = NoProbability
    /\ log = {}
    /\ calls = <<>>
    /\ temperature = HistoryInit.temperature
    /\ moisture = HistoryInit.moisture
    /\ writeIndex = HistoryInit.writeIndex
    /\ count = HistoryInit.count
    /\ modelReady = FALSE
    /\ lastReadingTime = 0
    /\ scenHistory = ScenHistoryInit
    /\ added = <<>>
    /\ scen = NotRunning
    /\ tfl = NotRunning
    /\ plant = NotRunning
    /\ hal = NotRunning
    /\ mono = MonoInit

InitCtl == cfg = ProductionCfg /\ InitController

InitCfg == cfg \in TestCfgs \cup {ProductionCfg} /\ InitController

\* the variables after a controller operation that leaves m
CtlAssign(m) ==
    /\ pump' = m.pump
    /\ relay' = m.relay
    /\ led' = m.led
    /\ log' = m.log

\* one decision cycle: makeIrrigationDecision(prob, now), d ms after the last
Decide(prob, d) ==
    /\ pc = "ctl"
    /\ Len(calls) < MaxCalls
    /\ clock' = UAdd(clock, d)
    /\ probability' = prob
    /\ calls' = Append(calls, <<prob, UAdd(clock, d)>>)
    /\ \E m \in {makeIrrigationDecision(Controller, prob, UAdd(clock, d))} : CtlAssign(m)
    /\ UNCHANGED <<cfg, env, pc, histVars, modelReady, lastReadingTime, scenHistory, added,
                   otherSketches, mono>>

NextCtl == \E prob \in CtlProbabilities, d \in CtlSteps : Decide(prob, d)

SpecCtl == InitCtl /\ [][NextCtl]_vars

SpecCfg == InitCfg /\ [][NextCtl]_vars

-----------------------------------------------------------------------------
(* The history buffer driven on its own: any sequence of init() and        *)
(* addReading() calls.                                                     *)

\* samples (temperature, moisture) handed to addReading
HistSamples == {<<21, 210>>, <<22, 220>>, <<23, 230>>}

\* addReading calls the harness makes between two init() calls
MaxAdds == 6

InitHist ==
    /\ cfg = ProductionCfg
    /\ env = SketchEnv
    /\ pc = "hist"
    /\ clock = 0
    /\ temperature = HistoryInit.temperature
    /\ moisture = HistoryInit.moisture
    /\ writeIndex = HistoryInit.writeIndex
    /\ count = HistoryInit.count
    /\ scenHistory = ScenHistoryInit
    /\ added = <<>>
    /\ log = {"init"}
    /\ pump = PumpInit
    /\ relay = LOW
    /\ led = LOW
    /\ probability = NoProbability
    /\ calls = <<>>
    /\ modelReady = FALSE
    /\ lastReadingTime = 0
    /\ scen = NotRunning
    /\ tfl = NotRunning
    /\ plant = NotRunning
    /\ hal = NotRunning
    /\ mono = MonoInit

\* the history variables after an operation that leaves h
HistAssign(h) ==
    /\ temperature' = h.temperature
    /\ moisture' = h.moisture
    /\ writeIndex' = h.writeIndex
    /\ count' = h.count

\* history.init() in both sketches
HInit ==
    /\ pc = "hist"
    /\ HistAssign(HistoryInit)
    /\ scenHistory' = ScenHistoryInit
    /\ added' = <<>>
    /\ log' = {"init"}
    /\ UNCHANGED <<cfg, env, pc, clock, pumpVars, modelReady, lastReadingTime, probability, calls,
                   otherSketches, mono>>

\* history.addReading(s[1], s[2]) in both sketches
HAdd(s) ==
    /\ pc = "hist"
    /\ Len(added) < MaxAdds
    /\ \E h \in {addReading(History, s[1], s[2])} : HistAssign(h)
    /\ scenHistory' = ScenAddReading(scenHistory, s[1], s[2])
    /\ added' = Append(added, s)
    /\ log' = {"addReading"}
    /\ UNCHANGED <<cfg, env, pc, clock, pumpVars, modelReady, lastReadingTime, probability, calls,
                   otherSketches, mono>>

HAddStep == \E s \in HistSamples : HAdd(s)

NextHist == HInit \/ HAddStep

SpecHist == InitHist /\ [][NextHist]_vars

-----------------------------------------------------------------------------
(* The scenario sketch: decision functions.  A String is the sequence of   *)
(* its characters.                                                         *)

\* "CRITICAL - IRRIGATE NOW!"
TextCritical ==
    <<"C", "R", "I", "T", "I", "C", "A", "L", " ", "-", " ", "I", "R", "R",
      "I", "G", "A", "T", "E", " ", "N", "O", "W", "!">>

\* "IRRIGATE SOON (rapid drying)"
TextRapidDrying ==
    <<"I", "R", "R", "I", "G", "A", "T", "E", " ", "S", "O", "O", "N", " ",
      "(", "r", "a", "p", "i", "d", " ", "d", "r", "y", "i", "n", "g", ")">>

\* "NO - Soil recovering"
TextRecovering ==
    <<"N", "O", " ", "-", " ", "S", "o", "i", "l", " ", "r", "e", "c", "o",
      "v", "e", "r", "i", "n", "g">>

\* "IRRIGATE (heat + drying)"
TextHeatDrying ==
    <<"I", "R", "R", "I", "G", "A", "T", "E", " ", "(", "h", "e", "a", "t",
      " ", "+", " ", "d", "r", "y", "i", "n", "g", ")">>

\* "IRRIGATE (stable, low)"
TextStableLow ==
    <<"I", "R", "R", "I", "G", "A", "T", "E", " ", "(", "s", "t", "a", "b",
      "l", "e", ",", " ", "l", "o", "w", ")">>

\* "NO - Stable, adequate"
TextStableAdequate ==
    <<"N", "O", " ", "-", " ", "S", "t", "a", "b", "l", "e", ",", " ", "a",
      "d", "e", "q", "u", "a", "t", "e">>

\* "IRRIGATE (moderate drying)"
TextModerateDrying ==
    <<"I", "R", "R", "I", "G", "A", "T", "E", " ", "(", "m", "o", "d", "e",
      "r", "a", "t", "e", " ", "d", "r", "y", "i", "n", "g", ")">>

\* "MONITOR"
TextMonitor ==
    <<"M", "O", "N", "I", "T", "O", "R">>

\* "IRRIGATE"
TextIrrigate ==
    <<"I", "R", "R", "I", "G", "A", "T", "E">>

\* String::indexOf(pattern): position of the first occurrence, -1 if none
indexOf(text, pattern) ==
    LET found == { i \in 0 .. (Len(text) - Len(pattern)) :
                      SubSeq(text, i + 1, i + Len(pattern)) = pattern }
    IN  IF found = {} THEN -1
        ELSE CHOOSE i \in found : \A j \in found : i <= j

\* a temperature literal of the scenario sketch, in tenths of a degree
Deg(n) == n * 10

\* thresholdDecision(temp, moisture)
thresholdDecision(temp, moist) ==
    IF temp < Deg(28) THEN moist < 256
    ELSE IF temp < Deg(30) THEN moist < 237
    ELSE IF temp < Deg(32) THEN moist < 229
    ELSE moist < 240

\* trendBasedDecision with the recovery rule tried first
trendBasedDecision_recoveryFirst(moist, trend, temp) ==
    IF trend > 30 THEN TextRecovering
    ELSE IF moist < 160 THEN TextCritical
    ELSE IF trend < -50 /\ moist < 250 THEN TextRapidDrying
    ELSE IF temp > Deg(33) /\ trend < -30 THEN TextHeatDrying
    ELSE IF trend > -15 /\ trend < 15
    THEN IF thresholdDecision(temp, moist) THEN TextStableLow ELSE TextStableAdequate
    ELSE IF trend < -20 /\ moist < 220 THEN TextModerateDrying
    ELSE TextMonitor

\* trendBasedDecision without the recovery rule
trendBasedDecision_noRecovery(moist, trend, temp) ==
    IF moist < 160 THEN TextCritical
    ELSE IF trend < -50 /\ moist < 250 THEN TextRapidDrying
    ELSE IF temp > Deg(33) /\ trend < -30 THEN TextHeatDrying
    ELSE IF trend > -15 /\ trend < 15
    THEN IF thresholdDecision(temp, moist) THEN TextStableLow ELSE TextStableAdequate
    ELSE IF trend < -20 /\ moist < 220 THEN TextModerateDrying
    ELSE TextMonitor

\* trendBasedDecision that looks at the static threshold only
trendBasedDecision_static(moist, trend, temp) ==
    IF thresholdDecision(temp, moist) THEN TextStableLow ELSE TextStableAdequate

\* trendBasedDecision without the rapid-drying rule
trendBasedDecision_noRapidDrying(moist, trend, temp) ==
    IF moist < 160 THEN TextCritical
    ELSE IF trend > 30 THEN TextRecovering
    ELSE IF temp > Deg(33) /\ trend < -30 THEN TextHeatDrying
    ELSE IF trend > -15 /\ trend < 15
    THEN IF thresholdDecision(temp, moist) THEN TextStableLow ELSE TextStableAdequate
    ELSE IF trend < -20 /\ moist < 220 THEN TextModerateDrying
    ELSE TextMonitor

\* trendBasedDecision without the heat-and-drying rule
trendBasedDecision_noHeatRule(moist, trend, temp) ==
    IF moist < 160 THEN TextCritical
    ELSE IF trend < -50 /\ moist < 250 THEN TextRapidDrying
    ELSE IF trend > 30 THEN TextRecovering
    ELSE IF trend > -15 /\ trend < 15
    THEN IF thresholdDecision(temp, moist) THEN TextStableLow ELSE TextStableAdequate
    ELSE IF trend < -20 /\ moist < 220 THEN TextModerateDrying
    ELSE TextMonitor

\* trendBasedDecision(moisture, moistureTrend, temp)
trendBasedDecision(moist, trend, temp) ==
    IF moist < 160 THEN TextCritical
    ELSE IF trend < -50 /\ moist < 250 THEN TextRapidDrying
    ELSE IF trend > 30 THEN TextRecovering
    ELSE IF temp > Deg(33) /\ trend < -30 THEN TextHeatDrying
    ELSE IF trend > -15 /\ trend < 15
    THEN IF thresholdDecision(temp, moist) THEN TextStableLow ELSE TextStableAdequate
    ELSE IF trend < -20 /\ moist < 220 THEN TextModerateDrying
    ELSE TextMonitor

\* controlIrrigation(shouldIrrigate) on the sketch state sc
controlIrrigation(sc, shouldIrrigate) ==
    IF shouldIrrigate /\ ~sc.irrigationActive
    THEN [sc EXCEPT !.irrigationActive = TRUE, !.relay = HIGH, !.led = HIGH]
    ELSE IF ~shouldIrrigate /\ sc.irrigationActive
    THEN [sc EXCEPT !.irrigationActive = FALSE, !.relay = LOW, !.led = LOW]
    ELSE sc

-----------------------------------------------------------------------------
(* The decision step of the scenario sketch driven on its own: the branch  *)
(* of loop() taken with a ready history, for chosen readings and trends.   *)

\* moisture values on either side of every comparison of the rules
TrendMoistures == {150, 159, 160, 200, 219, 220, 228, 229, 236, 237, 239, 240,
                   249, 250, 255, 256, 300}

\* moisture trends on either side of every comparison of the rules
TrendTrends == {-60, -51, -50, -31, -30, -21, -20, -15, -14, 0, 14, 15, 30, 31, 40}

\* temperatures on either side of every comparison of the rules
TrendTemps == {279, 280, 299, 300, 319, 320, 330, 331}

\* the scenario sketch at the start of a scenario: outputs off, nothing decided
ScenInit ==
    [pc |-> "decide", temp |-> 0, moisture |-> 0, moistureTrend |-> 0,
     decision |-> <<>>, shouldIrrigate |-> FALSE,
     irrigationActive |-> FALSE, relay |-> LOW, led |-> LOW,
     currentScenario |-> 0, currentStep |-> 0, lastStepTime |-> 0]

InitTrend ==
    /\ cfg = ProductionCfg
    /\ env = SketchEnv
    /\ pc = "scenario"
    /\ clock = 0
    /\ temperature = HistoryInit.temperature
    /\ moisture = HistoryInit.moisture
    /\ writeIndex = HistoryInit.writeIndex
    /\ count = HistoryInit.count
    /\ pump = PumpInit
    /\ relay = LOW
    /\ led = LOW
    /\ modelReady = FALSE
    /\ lastReadingTime = 0
    /\ probability = NoProbability
    /\ log = {}
    /\ scenHistory = ScenHistoryInit
    /\ added = <<>>
    /\ calls = <<>>
    /\ scen = ScenInit
    /\ tfl = NotRunning
    /\ plant = NotRunning
    /\ hal = NotRunning
    /\ mono = MonoInit

\* the decision of a cycle with reading (temp, moist) and moisture trend
\* trend: trendBasedDecision, indexOf("IRRIGATE") >= 0, controlIrrigation
ScenDecide(temp, moist, trend) ==
    /\ pc = "scenario"
    /\ \E decision \in {trendBasedDecision(moist, trend, temp)} :
         \E shouldIrrigate \in {indexOf(decision, TextIrrigate) >= 0} :
            scen' = controlIrrigation(
                        [scen EXCEPT !.temp = temp, !.moisture = moist,
                                     !.moistureTrend = trend,
                                     !.decision = decision,
                                     !.shouldIrrigate = shouldIrrigate],
                        shouldIrrigate)
    /\ UNCHANGED <<cfg, env, pc, clock, histVars, pumpVars, modelReady, lastReadingTime,
                   probability, log, scenHistory, added, calls, tfl, plant, mono, hal>>

NextTrend ==
    \E temp \in TrendTemps, moist \in TrendMoistures, trend \in TrendTrends :
        ScenDecide(temp, moist, trend)

SpecTrend == InitTrend /\ [][NextTrend]_vars

-----------------------------------------------------------------------------
(* The scenario sketch: setup() and loop() replaying the built-in           *)
(* scenarios.  clock is millis() at the end of a pass, its delays           *)
(* included (the 10 ms of the closing delay left out).                      *)

STEP_INTERVAL == 2000
NUM_SCENARIOS == 7
SCENARIO_STEPS == 8
SCENARIO_PAUSE_MS == 5000
SCEN_SETUP_DELAY_MS == 4000

SCENARIO_HOT_DAY         == 0
SCENARIO_NORMAL_DAY      == 1
SCENARIO_RECOVERY        == 2
SCENARIO_MORNING_DEW     == 3
SCENARIO_SUDDEN_HEATWAVE == 4
SCENARIO_NIGHT_COOLING   == 5
SCENARIO_CRITICAL_DRY    == 6

\* scenarios[]: temp in tenths of a degree, moisture on the training scale
scenarios ==
    << [temp     |-> <<320, 325, 330, 335, 340, 342, 345, 348>>,
        moisture |-> <<320, 300, 275, 250, 225, 200, 175, 150>>],
       [temp     |-> <<285, 288, 290, 292, 290, 288, 285, 283>>,
        moisture |-> <<280, 278, 275, 273, 270, 268, 265, 263>>],
       [temp     |-> <<290, 285, 280, 275, 278, 280, 282, 285>>,
        moisture |-> <<180, 210, 240, 270, 285, 295, 305, 310>>],
       [temp     |-> <<240, 235, 230, 228, 230, 235, 240, 245>>,
        moisture |-> <<250, 258, 265, 272, 275, 273, 270, 268>>],
       [temp     |-> <<280, 295, 310, 330, 350, 365, 370, 375>>,
        moisture |-> <<300, 290, 270, 245, 215, 185, 155, 130>>],
       [temp     |-> <<320, 305, 290, 275, 265, 255, 250, 245>>,
        moisture |-> <<220, 222, 225, 228, 230, 232, 233, 234>>],
       [temp     |-> <<310, 315, 320, 320, 315, 310, 310, 310>>,
        moisture |-> <<180, 170, 160, 155, 150, 148, 145, 142>>] >>

\* time between the end of a pass of loop() and its next read of millis()
ScenPassSteps == {1000, STEP_INTERVAL}

\* the model follows the sketch for this many seconds
MaxScenSeconds == 170

\* the sketch at power-on: globals hold their initialisers
ScenPowerOn == [ScenInit EXCEPT !.pc = "setup"]

InitScen ==
    /\ cfg = ProductionCfg
    /\ env = SketchEnv
    /\ pc = "scenario"
    /\ clock = 0
    /\ temperature = HistoryInit.temperature
    /\ moisture = HistoryInit.moisture
    /\ writeIndex = HistoryInit.writeIndex
    /\ count = HistoryInit.count
    /\ pump = PumpInit
    /\ relay = LOW
    /\ led = LOW
    /\ modelReady = FALSE
    /\ lastReadingTime = 0
    /\ probability = NoProbability
    /\ log = {}
    /\ scenHistory = ScenHistoryInit
    /\ added = <<>>
    /\ calls = <<>>
    /\ scen = ScenPowerOn
    /\ tfl = NotRunning
    /\ plant = NotRunning
    /\ hal = NotRunning
    /\ mono = MonoInit

ScenUnchanged ==
    UNCHANGED <<cfg, env, pc, histVars, pumpVars, modelReady, lastReadingTime,
                probability, log, added, calls, tfl, plant, mono, hal>>

\* setup(): relay LOW, no model (irrigation_model_len = 0), history.init()
ScenSetup ==
    /\ pc = "scenario"
    /\ scen.pc = "setup"
    /\ scen' = [scen EXCEPT !.pc = "loop", !.relay = LOW]
    /\ scenHistory' = ScenHistoryInit
    /\ clock' = SCEN_SETUP_DELAY_MS
    /\ ScenUnchanged

\* ScenStep without the restart made at the first step of a scenario
ScenStep_noRestart(now) ==
    LET s0     == [scen EXCEPT !.lastStepTime = now]
        temp   == scenarios[scen.currentScenario + 1].temp[scen.currentStep + 1]
        moist  == scenarios[scen.currentScenario + 1].moisture[scen.currentStep + 1]
        h1     == ScenAddReading(scenHistory, temp, moist)
        read   == [s0 EXCEPT !.temp = temp, !.moisture = moist]
        decision == trendBasedDecision(moist, moistureTrend(h1), temp)
        shouldIrrigate == indexOf(decision, TextIrrigate) >= 0
        s1     == IF ScenIsReady(h1)
                  THEN controlIrrigation(
                           [read EXCEPT !.moistureTrend = moistureTrend(h1),
                                        !.decision = decision,
                                        !.shouldIrrigate = shouldIrrigate],
                           shouldIrrigate)
                  ELSE [read EXCEPT !.moistureTrend = 0, !.decision = <<>>,
                                    !.shouldIrrigate = FALSE]
        last   == scen.currentStep + 1 >= SCENARIO_STEPS
        s2     == IF last
                  THEN [s1 EXCEPT !.currentStep = 0,
                                  !.currentScenario = (@ + 1) % NUM_SCENARIOS]
                  ELSE [s1 EXCEPT !.currentStep = @ + 1]
    IN  [scen |-> s2, history |-> h1, pause |-> IF last THEN SCENARIO_PAUSE_MS ELSE 0]

\* ScenStep that keeps the history of the previous scenario
ScenStep_keepHistory(now) ==
    LET start  == scen.currentStep = 0
        s0     == IF start
                  THEN [scen EXCEPT !.lastStepTime = now, !.irrigationActive = FALSE,
                                    !.relay = LOW, !.led = LOW]
                  ELSE [scen EXCEPT !.lastStepTime = now]
        h0     == scenHistory
        temp   == scenarios[scen.currentScenario + 1].temp[scen.currentStep + 1]
        moist  == scenarios[scen.currentScenario + 1].moisture[scen.currentStep + 1]
        h1     == ScenAddReading(h0, temp, moist)
        read   == [s0 EXCEPT !.temp = temp, !.moisture = moist]
        decision == trendBasedDecision(moist, moistureTrend(h1), temp)
        shouldIrrigate == indexOf(decision, TextIrrigate) >= 0
        s1     == IF ScenIsReady(h1)
                  THEN controlIrrigation(
                           [read EXCEPT !.moistureTrend = moistureTrend(h1),
                                        !.decision = decision,
                                        !.shouldIrrigate = shouldIrrigate],
                           shouldIrrigate)
                  ELSE [read EXCEPT !.moistureTrend = 0, !.decision = <<>>,
                                    !.shouldIrrigate = FALSE]
        last   == scen.currentStep + 1 >= SCENARIO_STEPS
        s2     == IF last
                  THEN [s1 EXCEPT !.currentStep = 0,
                                  !.currentScenario = (@ + 1) % NUM_SCENARIOS]
                  ELSE [s1 EXCEPT !.currentStep = @ + 1]
    IN  [scen |-> s2, history |-> h1, pause |-> IF last THEN SCENARIO_PAUSE_MS ELSE 0]

\* the step of loop() taken when a reading is due at time now: the new
\* sketch state, history and the pause made at the end of a scenario
ScenStep(now) ==
    LET start  == scen.currentStep = 0
        s0     == IF start
                  THEN [scen EXCEPT !.lastStepTime = now, !.irrigationActive = FALSE,
                                    !.relay = LOW, !.led = LOW]
                  ELSE [scen EXCEPT !.lastStepTime = now]
        h0     == IF start THEN ScenHistoryInit ELSE scenHistory
        temp   == scenarios[scen.currentScenario + 1].temp[scen.currentStep + 1]
        moist  == scenarios[scen.currentScenario + 1].moisture[scen.currentStep + 1]
        h1     == ScenAddReading(h0, temp, moist)
        read   == [s0 EXCEPT !.temp = temp, !.moisture = moist]
        decision == trendBasedDecision(moist, moistureTrend(h1), temp)
        shouldIrrigate == indexOf(decision, TextIrrigate) >= 0
        s1     == IF ScenIsReady(h1)
                  THEN controlIrrigation(
                           [read EXCEPT !.moistureTrend = moistureTrend(h1),
                                        !.decision = decision,
                                        !.shouldIrrigate = shouldIrrigate],
                           shouldIrrigate)
                  ELSE [read EXCEPT !.moistureTrend = 0, !.decision = <<>>,
                                    !.shouldIrrigate = FALSE]
        last   == scen.currentStep + 1 >= SCENARIO_STEPS
        s2     == IF last
                  THEN [s1 EXCEPT !.currentStep = 0,
                                  !.currentScenario = (@ + 1) % NUM_SCENARIOS]
                  ELSE [s1 EXCEPT !.currentStep = @ + 1]
    IN  [scen |-> s2, history |-> h1, pause |-> IF last THEN SCENARIO_PAUSE_MS ELSE 0]

\* one pass of loop(), reading millis() d ms after the end of the last pass
ScenLoop(d) ==
    /\ pc = "scenario"
    /\ scen.pc = "loop"
    /\ clock + d <= MaxScenSeconds * 1000
    /\ IF USub(UAdd(clock, d), scen.lastStepTime) >= STEP_INTERVAL
       THEN \E r \in {ScenStep(UAdd(clock, d))} :
               /\ scen' = r.scen
               /\ scenHistory' = r.history
               /\ clock' = UAdd(UAdd(clock, d), r.pause)
       ELSE /\ clock' = UAdd(clock, d)
            /\ UNCHANGED <<scen, scenHistory>>
    /\ ScenUnchanged

ScenLoopStep == \E d \in ScenPassSteps : ScenLoop(d)

NextScen == ScenSetup \/ ScenLoopStep

SpecScen == InitScen /\ [][NextScen]_vars

\* Either sketch flashed on the board: the production sketch or the
\* scenario sketch, from power-on.
InitGate == Init \/ InitScen

NextGate == SetupStep \/ Loop \/ ScenSetup \/ ScenLoopStep

SpecGate == InitGate /\ [][NextGate]_vars

-----------------------------------------------------------------------------
(* The deployment-test sketch: setup(), runTests(), predictIrrigation()    *)
(* and loop().  The collaborator's part of a call is its outcome: whether  *)
(* Invoke() returned kTfLiteOk and the probability read from the output    *)
(* tensor (de-quantized for an int8 tensor, as it is for a float tensor).  *)

\* IRRIGATION_THRESHOLD comes from irrigation_model.h, a generated header;
\* the sketch is followed for each of these values, in hundredths
IrrigationThresholds == {30, 50, 70}

\* probabilities read from the output tensor, in hundredths
TensorProbabilities == {0, 10, 29, 30, 49, 50, 51, 70, 90, 100}

\* the readings (SM, T, H) of runTests()
RunTestsInputs == << <<20, 30, 50>>, <<75, 25, 60>>, <<35, 38, 30>>, <<60, 22, 65>> >>

\* readings loop() can draw: the ends of random(10, 80), 15 + random(0, 30),
\* 20 + random(0, 60)
LoopInputs == { <<sm, t, h>> : sm \in {10, 79}, t \in {15, 44}, h \in {20, 79} }

\* predictIrrigation(): invokeOk is Invoke() == kTfLiteOk, prob the
\* probability read from the output tensor
predictIrrigation(invokeOk, prob, threshold) ==
    IF ~invokeOk THEN FALSE
    ELSE prob >= threshold

\* the sketch at power-on, compiled with IRRIGATION_THRESHOLD = threshold
TdPowerOn(threshold) ==
    [pc |-> "setup", threshold |-> threshold, ready |-> FALSE, test |-> 0,
     input |-> <<>>, invokeOk |-> FALSE, probability |-> NoProbability, result |-> FALSE]

InitTd ==
    /\ cfg = ProductionCfg
    /\ env = SketchEnv
    /\ pc = "deploy"
    /\ clock = 0
    /\ temperature = HistoryInit.temperature
    /\ moisture = HistoryInit.moisture
    /\ writeIndex = HistoryInit.writeIndex
    /\ count = HistoryInit.count
    /\ pump = PumpInit
    /\ relay = LOW
    /\ led = LOW
    /\ modelReady = FALSE
    /\ lastReadingTime = 0
    /\ probability = NoProbability
    /\ log = {}
    /\ scenHistory = ScenHistoryInit
    /\ added = <<>>
    /\ calls = <<>>
    /\ scen = NotRunning
    /\ tfl \in { TdPowerOn(threshold) : threshold \in IrrigationThresholds }
    /\ plant = NotRunning
    /\ hal = NotRunning
    /\ mono = MonoInit

\* tfl after predictIrrigation(input) with the collaborator's outcome
TdPredict(input, invokeOk, prob) ==
    [tfl EXCEPT !.input = input,
                !.invokeOk = invokeOk,
                !.probability = IF invokeOk THEN prob ELSE NoProbability,
                !.result = predictIrrigation(invokeOk, prob, tfl.threshold)]

TdUnchanged ==
    UNCHANGED <<cfg, env, pc, clock, histVars, pumpVars, modelReady, lastReadingTime,
                probability, log, scenHistory, added, calls, scen, plant, mono, hal>>

\* setup() that goes on to runTests() whatever modelInit() returned
TdSetup_noHalt(initOk) ==
    /\ pc = "deploy"
    /\ tfl.pc = "setup"
    /\ tfl' = [tfl EXCEPT !.ready = initOk, !.pc = "runTests"]
    /\ TdUnchanged

\* setup() up to the call of runTests(): while(1) if modelInit() fails;
\* ready records that the interpreter has been initialised
TdSetup(initOk) ==
    /\ pc = "deploy"
    /\ tfl.pc = "setup"
    /\ tfl' = [tfl EXCEPT !.ready = initOk,
                          !.pc = IF initOk THEN "runTests" ELSE "halted"]
    /\ TdUnchanged

\* one iteration of the for loop of runTests(); setup() returns after the last
TdRunTest(invokeOk, prob) ==
    /\ pc = "deploy"
    /\ tfl.pc = "runTests"
    /\ \E t \in {TdPredict(RunTestsInputs[tfl.test + 1], invokeOk, prob)} :
           tfl' = [t EXCEPT !.test = tfl.test + 1,
                            !.pc = IF tfl.test + 1 = Len(RunTestsInputs)
                                   THEN "loop" ELSE "runTests"]
    /\ TdUnchanged

\* loop()
TdLoop(input, invokeOk, prob) ==
    /\ pc = "deploy"
    /\ tfl.pc = "loop"
    /\ tfl' = TdPredict(input, invokeOk, prob)
    /\ TdUnchanged

\* what the collaborator can do in a call: fail, or deliver a probability
TdOutcomes ==
    {[invokeOk |-> FALSE, prob |-> NoProbability]}
        \cup [invokeOk : {TRUE}, prob : TensorProbabilities]

TdSetupStep == \E initOk \in BOOLEAN : TdSetup(initOk)

TdRunTestStep == \E o \in TdOutcomes : TdRunTest(o.invokeOk, o.prob)

TdLoopStep == \E input \in LoopInputs, o \in TdOutcomes : TdLoop(input, o.invokeOk, o.prob)

NextTd == TdSetupStep \/ TdRunTestStep \/ TdLoopStep

SpecTd == InitTd /\ [][NextTd]_vars

-----------------------------------------------------------------------------
(* The plant-health sketch: setup(), runTest(), predict() and loop().       *)
(* Feature values are in tenths.  The constants of plant_health_model.h, a  *)
(* generated header, are not part of the sources: the sketch is followed    *)
(* for each header of PlantHeaders, with INPUT_SCALE = 1 / INPUT_SCALE_INV   *)
(* and OUTPUT_SCALE = 1 / OUTPUT_SCALE_INV, so that every quotient predict  *)
(* computes is a ratio of integers.  float rounding is not modelled, and    *)
(* the inputs are those whose quotient fits int32_t (beyond, the cast of    *)
(* predict is undefined).                                                   *)

NUM_FEATURES == 6
NUM_CLASSES == 7
INT8_MIN == -128
INT8_MAX == 127

PlantHeaders ==
    { [ FEATURE_MEANS     |-> <<500, 500, 400, 65, 450, 250>>,
        FEATURE_STDS      |-> <<250, 150, 120, 10, 150, 50>>,
        INPUT_SCALE_INV   |-> s,
        INPUT_ZERO_POINT  |-> z,
        OUTPUT_SCALE_INV  |-> 256,
        OUTPUT_ZERO_POINT |-> -128 ] : s \in {10, 25, 40}, z \in {-10, 0, 7} }

\* testHealthy .. testAlkaline, in the order setup() runs them
PlantTests ==
    << <<850, 550, 450, 65, 500, 250>>,
       << 50, 500, 400, 65, 450, 240>>,
       <<600, 100, 400, 64, 500, 250>>,
       <<700, 550,  80, 65, 480, 240>>,
       <<800, 500, 420, 68,  50, 280>>,
       <<650, 480, 380, 45, 450, 230>>,
       <<700, 520, 400, 85, 500, 260>> >>

\* custom values loop() can read from the serial line: the feature means,
\* values next to them, zeros, and values far outside any training range
PlantCustomInputs ==
    { <<500, 500, 400, 65, 450, 250>>,
      <<510, 490, 403, 66, 447, 251>>,
      <<0, 0, 0, 0, 0, 0>>,
      <<100000, 100000, 100000, 100000, 100000, 100000>>,
      <<-100000, -100000, -100000, -100000, -100000, -100000>> }

\* the int8 output tensor after a successful Invoke()
PlantOutputs ==
    { <<-128, -128, -128, -128, -128, -128, -128>>,
      <<-100, 90, -128, -128, -128, -128, -90>>,
      <<-128, 40, -128, 40, -128, -128, -128>>,
      <<127, -128, -128, -128, -128, -128, 127>> }

\* constrain(x, lo, hi)
constrain(x, lo, hi) == IF x < lo THEN lo ELSE IF x > hi THEN hi ELSE x

\* (int32_t)(n / d) for d > 0: the fraction is dropped, towards zero
castInt32(n, d) == IF n >= 0 THEN n \div d ELSE -((-n) \div d)

\* the body of the first loop of predict with the zero point left out
quantizeInput_noZeroPoint(h, i, raw) ==
    constrain(castInt32((raw - h.FEATURE_MEANS[i]) * h.INPUT_SCALE_INV, h.FEATURE_STDS[i]),
              INT8_MIN, INT8_MAX)

\* the body of the first loop of predict: the int8 written for feature i.
\* normalized / INPUT_SCALE = (raw - mean) * INPUT_SCALE_INV / std
quantizeInput(h, i, raw) ==
    constrain(castInt32((raw - h.FEATURE_MEANS[i]) * h.INPUT_SCALE_INV, h.FEATURE_STDS[i])
                  + h.INPUT_ZERO_POINT,
              INT8_MIN, INT8_MAX)

\* the probability of an output value q, in units of OUTPUT_SCALE
dequantizeOutput(h, q) == constrain(q - h.OUTPUT_ZERO_POINT, 0, h.OUTPUT_SCALE_INV)

\* the second loop of predict from class i on: maxIdx after the last class
RECURSIVE maxIdxFrom(_, _, _, _)
maxIdxFrom(probs, i, maxProb, maxIdx) ==
    IF i > NUM_CLASSES THEN maxIdx
    ELSE IF probs[i] > maxProb THEN maxIdxFrom(probs, i + 1, probs[i], i - 1)
    ELSE maxIdxFrom(probs, i + 1, maxProb, maxIdx)

\* predict(rawFeatures): the input tensor written, the probabilities read
\* and the value returned (-1 when Invoke() fails)
predict(h, rawFeatures, invokeOk, out) ==
    LET tensor == [i \in 1..NUM_FEATURES |-> quantizeInput(h, i, rawFeatures[i])]
        probs  == [i \in 1..NUM_CLASSES |-> dequantizeOutput(h, out[i])]
    IN  IF ~invokeOk
        THEN [tensor |-> tensor, probs |-> <<>>, result |-> -1]
        ELSE [tensor |-> tensor, probs |-> probs,
              result |-> maxIdxFrom(probs, 1, -999 * h.OUTPUT_SCALE_INV, 0)]

\* the sketch at power-on, compiled with header h
PlantPowerOn(h) ==
    [pc |-> "setup", header |-> h, ready |-> FALSE, test |-> 0, rawFeatures |-> <<>>,
     tensor |-> <<>>, probs |-> <<>>, result |-> 0]

InitPlant ==
    /\ cfg = ProductionCfg
    /\ env = SketchEnv
    /\ pc = "plant"
    /\ clock = 0
    /\ temperature = HistoryInit.temperature
    /\ moisture = HistoryInit.moisture
    /\ writeIndex = HistoryInit.writeIndex
    /\ count = HistoryInit.count
    /\ pump = PumpInit
    /\ relay = LOW
    /\ led = LOW
    /\ modelReady = FALSE
    /\ lastReadingTime = 0
    /\ probability = NoProbability
    /\ log = {}
    /\ scenHistory = ScenHistoryInit
    /\ added = <<>>
    /\ calls = <<>>
    /\ scen = NotRunning
    /\ tfl = NotRunning
    /\ plant \in { PlantPowerOn(h) : h \in PlantHeaders }
    /\ hal = NotRunning
    /\ mono = MonoInit

\* plant after predict(rawFeatures) with the collaborator's outcome
PlantPredict(rawFeatures, invokeOk, out) ==
    LET r == predict(plant.header, rawFeatures, invokeOk, out)
    IN  [plant EXCEPT !.rawFeatures = rawFeatures, !.tensor = r.tensor,
                      !.probs = r.probs, !.result = r.result]

PlantUnchanged ==
    UNCHANGED <<cfg, env, pc, clock, histVars, pumpVars, modelReady, lastReadingTime,
                probability, log, scenHistory, added, calls, scen, tfl, mono, hal>>

\* setup() up to the first runTest(): while (1) on a schema mismatch or
\* when AllocateTensors() fails; ready records that the interpreter has been
\* built and its tensors allocated
PlantSetup(schemaOk, allocateOk) ==
    /\ pc = "plant"
    /\ plant.pc = "setup"
    /\ plant' = [plant EXCEPT !.ready = schemaOk /\ allocateOk,
                              !.pc = IF schemaOk /\ allocateOk THEN "runTests" ELSE "halted"]
    /\ PlantUnchanged

\* one runTest() call of setup(); setup() returns after the last
PlantRunTest(invokeOk, out) ==
    /\ pc = "plant"
    /\ plant.pc = "runTests"
    /\ \E t \in {PlantPredict(PlantTests[plant.test + 1], invokeOk, out)} :
           plant' = [t EXCEPT !.test = plant.test + 1,
                              !.pc = IF plant.test + 1 = Len(PlantTests)
                                     THEN "loop" ELSE "runTests"]
    /\ PlantUnchanged

\* loop() with a line of NUM_FEATURES custom values on the serial port (with
\* no line, or a line of fewer values, loop() changes nothing)
PlantLoop(rawFeatures, invokeOk, out) ==
    /\ pc = "plant"
    /\ plant.pc = "loop"
    /\ plant' = PlantPredict(rawFeatures, invokeOk, out)
    /\ PlantUnchanged

\* what the collaborator can do in a call: fail, or fill the output tensor
PlantOutcomes ==
    {[invokeOk |-> FALSE, out |-> <<>>]} \cup [invokeOk : {TRUE}, out : PlantOutputs]

PlantSetupStep == \E schemaOk \in BOOLEAN, allocateOk \in BOOLEAN : PlantSetup(schemaOk, allocateOk)

PlantRunTestStep == \E o \in PlantOutcomes : PlantRunTest(o.invokeOk, o.out)

PlantLoopStep ==
    \E rawFeatures \in PlantCustomInputs, o \in PlantOutcomes :
        PlantLoop(rawFeatures, o.invokeOk, o.out)

NextPlant == PlantSetupStep \/ PlantRunTestStep \/ PlantLoopStep

SpecPlant == InitPlant /\ [][NextPlant]_vars

\* Either test sketch flashed on the board: the deployment-test sketch or the
\* plant-health sketch, from power-on.
InitStartup == InitTd \/ InitPlant

NextStartup ==
    \/ TdSetupStep \/ TdRunTestStep \/ TdLoopStep
    \/ PlantSetupStep \/ PlantRunTestStep \/ PlantLoopStep

SpecStartup == InitStartup /\ [][NextStartup]_vars

-----------------------------------------------------------------------------
(* The PWM module of the interfacing layer: PWM_initChannel() and          *)
(* PWM_setDutyCycle().  The peripheral is the collaborator behind          *)
(* analogWriteResolution(), analogWriteFrequency() and analogWrite(): per  *)
(* channel it holds the resolution, the frequency and the duty value last  *)
(* written to it.                                                          *)

STD_ON  == 1
STD_OFF == 0

\* the channels the module is driven on
PwmChannels == {0, 1}

\* PWM_t values handed to PWM_initChannel: frequency in Hz, resolution in bits
PwmConfigs == [channel : PwmChannels, frequency : {8, 1000, 5000}, resolution : {8, 10}]

\* duty cycles handed to PWM_setDutyCycle, in percent
PwmDutyCycles == {0, 50, 100}

\* a channel of the peripheral before the module has touched it
PwmChannelInit == [frequency |-> 0, resolution |-> 0, duty |-> 0]

\* the module at power-on, built with PWM_ENABLED = enabled
PwmPowerOn(enabled) ==
    [pc |-> "pwm", PWM_ENABLED |-> enabled,
     channels |-> [c \in PwmChannels |-> PwmChannelInit],
     call |-> "none", config |-> <<>>]

\* analogWriteResolution(pin, resolution)
analogWriteResolution(channels, pin, resolution) ==
    [channels EXCEPT ![pin].resolution = resolution]

\* analogWriteFrequency(pin, freq)
analogWriteFrequency(channels, pin, freq) ==
    [channels EXCEPT ![pin].frequency = freq]

\* analogWrite(pin, value)
analogWrite(channels, pin, value) ==
    [channels EXCEPT ![pin].duty = value]

\* PWM_initChannel(config): the channels of the peripheral after the call
PWM_initChannel(h, config) ==
    IF h.PWM_ENABLED = STD_ON
    THEN analogWriteFrequency(
             analogWriteResolution(h.channels, config.channel, config.resolution),
             config.channel, config.resolution)
    ELSE h.channels

\* PWM_setDutyCycle(channel, dutyCyclePercentage): the duty value is the
\* percentage of (1 << 8) - 1, its fraction dropped by the conversion to
\* uint32_t
PWM_setDutyCycle(h, channel, dutyCyclePercentage) ==
    IF h.PWM_ENABLED = STD_ON
    THEN analogWrite(h.channels, channel, (dutyCyclePercentage * (2^8 - 1)) \div 100)
    ELSE h.channels

InitPwm ==
    /\ cfg = ProductionCfg
    /\ env = SketchEnv
    /\ pc = "pwm"
    /\ clock = 0
    /\ temperature = HistoryInit.temperature
    /\ moisture = HistoryInit.moisture
    /\ writeIndex = HistoryInit.writeIndex
    /\ count = HistoryInit.count
    /\ pump = PumpInit
    /\ relay = LOW
    /\ led = LOW
    /\ modelReady = FALSE
    /\ lastReadingTime = 0
    /\ probability = NoProbability
    /\ log = {}
    /\ scenHistory = ScenHistoryInit
    /\ added = <<>>
    /\ calls = <<>>
    /\ scen = NotRunning
    /\ tfl = NotRunning
    /\ plant = NotRunning
    /\ mono = MonoInit
    /\ hal \in { PwmPowerOn(enabled) : enabled \in {STD_ON, STD_OFF} }

PwmUnchanged ==
    UNCHANGED <<cfg, env, pc, clock, histVars, pumpVars, modelReady, lastReadingTime,
                probability, log, scenHistory, added, calls, scen, tfl, plant, mono>>

\* a caller initialises a channel
PwmInitChannel(config) ==
    /\ pc = "pwm"
    /\ hal' = [hal EXCEPT !.channels = PWM_initChannel(hal, config),
                          !.call = "PWM_initChannel", !.config = config]
    /\ PwmUnchanged

\* a caller sets the duty cycle of a channel
PwmSetDutyCycle(channel, dutyCyclePercentage) ==
    /\ pc = "pwm"
    /\ hal' = [hal EXCEPT !.channels = PWM_setDutyCycle(hal, channel, dutyCyclePercentage),
                          !.call = "PWM_setDutyCycle"]
    /\ PwmUnchanged

PwmInitChannelStep == \E config \in PwmConfigs : PwmInitChannel(config)

PwmSetDutyCycleStep ==
    \E channel \in PwmChannels, dutyCyclePercentage \in PwmDutyCycles :
        PwmSetDutyCycle(channel, dutyCyclePercentage)

NextPwm == PwmInitChannelStep \/ PwmSetDutyCycleStep

SpecPwm == InitPwm /\ [][NextPwm]_vars

-----------------------------------------------------------------------------
(* Claims about the production sketch                                      *)

\* C1: at the end of every pass of loop() the pump is not running with
\* now - runStartTime > MAX_PUMP_RUN_TIME, whatever the pass did (a pass
\* that skips the cycle on an invalid reading included).
C1_MaxRunSafety ==
    pc = "loop" =>
        ~(pump.isRunning /\ USub(clock, pump.runStartTime) > MAX_PUMP_RUN_TIME)

\* C3: every OFF->ON transition of the production sketch happens in a cycle
\* with probability > THRESHOLD_IRRIGATE and now - lastOffTime >=
\* MIN_PUMP_OFF_TIME; hence a running pump was started at least
\* MIN_PUMP_OFF_TIME after the last OFF transition.
C3_MinOffGuard ==
    /\ [][ (~pump.isRunning /\ pump'.isRunning) =>
              /\ probability' > THRESHOLD_IRRIGATE
              /\ USub(clock', pump.lastOffTime) >= MIN_PUMP_OFF_TIME ]_vars
    /\ [](pump.isRunning =>
              USub(pump.runStartTime, pump.lastOffTime) >= MIN_PUMP_OFF_TIME)

\* the pump was started exactly MIN_PUMP_OFF_TIME after an OFF transition
C3_Witness ==
    /\ pump.isRunning
    /\ pump.lastOffTime > 0
    /\ USub(pump.runStartTime, pump.lastOffTime) = MIN_PUMP_OFF_TIME

\* the history after the step
HistoryNext == [temperature |-> temperature', moisture |-> moisture',
                writeIndex |-> writeIndex', count |-> count']

\* the step is a pass of loop() that took a reading the validation rejected
RejectedReading ==
    \/ "DHT22 read error!" \in log'
    \/ "Invalid temperature" \in log'
    \/ "Invalid moisture" \in log'

\* the step is a pass of loop() that took a reading, accepted it and found
\* the history ready
DecisionCycle ==
    /\ pc = "loop"
    /\ "reading" \in log'
    /\ ~RejectedReading
    /\ isReady(HistoryNext)

\* the 0.9 / 0.1 of the threshold fallback on the reading of the step
FallbackOnReading ==
    IF fallbackDecision(getTemp(HistoryNext, 0), getMoisture(HistoryNext, 0))
    THEN 90 ELSE 10

\* C14: a pass whose temperature read fails (-999) or whose reading
\* validateSensorReadings rejects skips the cycle: slots, writeIndex and
\* count are unchanged and no decision is made (no probability, controller
\* and outputs unchanged); every sample held has its temperature in
\* [-10, 60] and its moisture in [50, 500].
C14_InvalidNeverStored ==
    /\ [][ RejectedReading =>
              /\ "Invalid readings - skipping this cycle" \in log'
              /\ UNCHANGED <<temperature, moisture, writeIndex, count>>
              /\ UNCHANGED <<pump, relay, led>>
              /\ probability' = NoProbability ]_vars
    /\ []( pc = "loop" =>
              \A k \in 0 .. (count - 1) :
                  /\ getTemp(History, k) >= -10
                  /\ getTemp(History, k) <= 60
                  /\ getMoisture(History, k) >= 50
                  /\ getMoisture(History, k) <= 500 )

\* a temperature just outside the range was rejected with the history ready,
\* the newest sample held being one from the end of the range
C14_Witness ==
    /\ "Invalid temperature" \in log
    /\ "DHT22 read error!" \notin log
    /\ "Invalid readings - skipping this cycle" \in log
    /\ count = HISTORY_SIZE
    /\ getTemp(History, 0) \in {-10, 60}
    /\ probability = NoProbability

\* C15: with the model initialised, a cycle whose inference fails takes its
\* probability from fallbackDecision on the current temperature and
\* moisture; modelReady is unchanged, and every later decision cycle runs
\* the model again.
C15_PerCycleFallback ==
    /\ [][ "Inference failed!" \in log' => "Using fallback rules..." \in log' ]_vars
    /\ [][ "Using fallback rules..." \in log' =>
              /\ probability' = FallbackOnReading
              /\ modelReady
              /\ modelReady' ]_vars
    /\ [][ (DecisionCycle /\ modelReady) =>
              \/ "INFERENCE RESULTS" \in log'
              \/ "Inference failed!" \in log' ]_vars

\* the pump, started on the model's probability, was stopped in a cycle whose
\* inference failed and whose fallback said no irrigation
C15_Witness ==
    /\ modelReady
    /\ "Inference failed!" \in log
    /\ "Using fallback rules..." \in log
    /\ probability = 10
    /\ "PUMP OFF" \in log
    /\ ~pump.isRunning

\* C16: if modelInit fails or there is no model data, modelReady is false
\* from setup() on; no decision cycle runs the inference, each takes its
\* probability from fallbackDecision, and loop() goes on (a next pass is
\* always possible).
C16_InitFailureNotFatal ==
    /\ [][ (pc = "setup" /\ pc' = "loop") =>
              (modelReady' <=> "Model loaded successfully!" \in log') ]_vars
    /\ [][ pc = "loop" => (pc' = "loop" /\ modelReady' = modelReady) ]_vars
    /\ [][ (DecisionCycle /\ ~modelReady) =>
              /\ "Using fallback rules (no model)..." \in log'
              /\ "INFERENCE RESULTS" \notin log'
              /\ "Inference failed!" \notin log'
              /\ probability' = FallbackOnReading ]_vars
    /\ [](pc = "loop" => ENABLED Loop)

\* without a model the fallback has started the pump
C16_Witness ==
    /\ pc = "loop"
    /\ ~modelReady
    /\ "Using fallback rules (no model)..." \in log
    /\ probability = 90
    /\ "PUMP ON" \in log
    /\ pump.isRunning

\* C17: the probability handed to makeIrrigationDecision lies in [0, 1].
C17_ProbabilityClamped ==
    (pc = "loop" /\ probability # NoProbability) =>
        (probability >= 0 /\ probability <= 100)

-----------------------------------------------------------------------------
(* Claims about the controller                                             *)

\* C2: for every timing configuration, a decision cycle that finds the pump
\* running with now - runStartTime > maxRunTime leaves it off, also when
\* now - runStartTime < minOnTime.
C2_ForcedOffUnconditional ==
    [][ (pump.isRunning /\ USub(clock', pump.runStartTime) > cfg.maxRunTime)
            => ~pump'.isRunning ]_vars

\* C4: an ON->OFF transition other than the forced one happens in a cycle
\* with probability < THRESHOLD_STOP and now - runStartTime >=
\* MIN_PUMP_ON_TIME; a low probability earlier than that leaves the pump
\* running and the controller unchanged.
C4_MinOnGuard ==
    [][ /\ (pump.isRunning /\ ~pump'.isRunning /\ ForcedTag \notin log') =>
               /\ probability' < THRESHOLD_STOP
               /\ USub(clock', pump.runStartTime) >= MIN_PUMP_ON_TIME
        /\ ( /\ pump.isRunning
             /\ probability' < THRESHOLD_STOP
             /\ USub(clock', pump.runStartTime) < MIN_PUMP_ON_TIME ) =>
               UNCHANGED <<pump, relay, led>> ]_vars

\* a low probability was refused one ms before MIN_PUMP_ON_TIME and accepted
\* one ms later
C4_Witness ==
    /\ Len(calls) = 3
    /\ calls[2] = <<10, pump.runStartTime + MIN_PUMP_ON_TIME - 1>>
    /\ calls[3] = <<10, pump.runStartTime + MIN_PUMP_ON_TIME>>
    /\ ~pump.isRunning
    /\ pump.lastOffTime = pump.runStartTime + MIN_PUMP_ON_TIME
    /\ log = {"Low probability - stopping irrigation", "PUMP OFF"}

\* C5: a decision cycle with THRESHOLD_STOP <= probability <=
\* THRESHOLD_IRRIGATE and the max run time not exceeded changes neither the
\* controller (isRunning, lastOnTime, lastOffTime, runStartTime) nor the
\* relay and LED outputs.
C5_DeadBand ==
    [][ ( /\ probability' >= THRESHOLD_STOP
          /\ probability' <= THRESHOLD_IRRIGATE
          /\ ~shouldForceOff(pump, clock') ) =>
            UNCHANGED <<pump, relay, led>> ]_vars

\* probability 0.70 left the pump OFF although the min-off time had passed,
\* then probability 0.30 left it ON although the min-on time had passed
C5_Witness ==
    /\ Len(calls) = 3
    /\ calls[1] = <<THRESHOLD_IRRIGATE, MIN_PUMP_OFF_TIME>>
    /\ calls[2][1] = 90
    /\ calls[3][1] = THRESHOLD_STOP
    /\ pump.isRunning
    /\ pump.runStartTime = calls[2][2]
    /\ USub(clock, pump.runStartTime) >= MIN_PUMP_ON_TIME

\* the cycle times of C6
C6Times == <<0, MIN_PUMP_ON_TIME - 1, MIN_PUMP_ON_TIME + 1>>

\* C6: on a freshly initialised controller, after each of the cycles with
\* probability 0.9 at times 0, minOnTime - 1, minOnTime + 1 the pump is ON,
\* running since t = 0.
C6_FirstActivation ==
    \A n \in 1 .. 3 :
        ( /\ Len(calls) = n
          /\ \A i \in 1 .. n : calls[i] = <<90, C6Times[i]>> ) =>
            /\ pump.isRunning
            /\ pump.runStartTime = 0
            /\ relay = HIGH

\* C7: with the pump ON since t0, the cycle at t0 + maxRunTime + 1 with
\* probability 0.9 switches it off and records lastOffTime; the next cycle,
\* one ms later with probability 0.9, leaves it off, now - lastOffTime
\* being below minOffTime.
C7_ForcedOffThenBlocked ==
    [][ /\ ( /\ pump.isRunning
             /\ clock' = pump.runStartTime + MAX_PUMP_RUN_TIME + 1
             /\ probability' = 90 ) =>
               /\ ~pump'.isRunning
               /\ pump'.lastOffTime = clock'
               /\ relay' = LOW
        /\ ( /\ ~pump.isRunning
             /\ ForcedTag \in log
             /\ clock = pump.runStartTime + MAX_PUMP_RUN_TIME + 1
             /\ clock' = clock + 1
             /\ probability' = 90 ) =>
               /\ USub(clock', pump.lastOffTime) < MIN_PUMP_OFF_TIME
               /\ pump' = pump
               /\ relay' = LOW ]_vars

\* the two cycles of C7 have run: forced off, then refused
C7_Witness ==
    /\ Len(calls) = 3
    /\ calls[2] = <<90, pump.runStartTime + MAX_PUMP_RUN_TIME + 1>>
    /\ calls[3] = <<90, pump.runStartTime + MAX_PUMP_RUN_TIME + 2>>
    /\ ~pump.isRunning
    /\ pump.lastOffTime = pump.runStartTime + MAX_PUMP_RUN_TIME + 1
    /\ log = {"Waiting for minimum off time"}

-----------------------------------------------------------------------------
(* Claims about the history buffer                                         *)

\* the sample passed to the addReading call of a step
LastAdded == added'[Len(added')]

\* C8: count stays in 0..HISTORY_SIZE and the write index in
\* 0..HISTORY_SIZE-1, in both sketches; each addReading writes the slot at
\* the old write index and no other, advances the index by one modulo
\* HISTORY_SIZE, and increases count by one unless it is HISTORY_SIZE.
C8_HistoryInvariant ==
    /\ []( /\ count \in 0 .. HISTORY_SIZE
           /\ writeIndex \in 0 .. (HISTORY_SIZE - 1)
           /\ scenHistory.count \in 0 .. HISTORY_SIZE
           /\ scenHistory.index \in 0 .. (HISTORY_SIZE - 1) )
    /\ [][ "addReading" \in log' =>
             /\ temperature' = [temperature EXCEPT ![writeIndex] = LastAdded[1]]
             /\ moisture' = [moisture EXCEPT ![writeIndex] = LastAdded[2]]
             /\ writeIndex' = (writeIndex + 1) % HISTORY_SIZE
             /\ count' = IF count = HISTORY_SIZE THEN HISTORY_SIZE ELSE count + 1
             /\ scenHistory'.temperature =
                    [scenHistory.temperature EXCEPT ![scenHistory.index] = LastAdded[1]]
             /\ scenHistory'.soilmoisture =
                    [scenHistory.soilmoisture EXCEPT ![scenHistory.index] = LastAdded[2]]
             /\ scenHistory'.index = (scenHistory.index + 1) % HISTORY_SIZE
             /\ scenHistory'.count =
                    IF scenHistory.count = HISTORY_SIZE THEN HISTORY_SIZE
                    ELSE scenHistory.count + 1 ]_vars

\* an addReading on a full buffer has wrapped the index and left count alone
C8_Witness ==
    /\ Len(added) = HISTORY_SIZE + 1
    /\ count = HISTORY_SIZE
    /\ writeIndex = 1
    /\ scenHistory.count = HISTORY_SIZE
    /\ scenHistory.index = 1

\* C9: for every k < count, getTemp(k) / getMoisture(k) are the sample added
\* k calls before the most recent one, and count is min(number of adds,
\* HISTORY_SIZE), also after the buffer has wrapped.
C9_StepsAgoLookup ==
    pc = "hist" =>
        /\ count = IF Len(added) < HISTORY_SIZE THEN Len(added) ELSE HISTORY_SIZE
        /\ \A k \in 0 .. (count - 1) :
              /\ getTemp(History, k) = added[Len(added) - k][1]
              /\ getMoisture(History, k) = added[Len(added) - k][2]

\* the buffer has wrapped twice over slot 0 and 1 and holds differing samples
C9_Witness ==
    /\ Len(added) = HISTORY_SIZE + 2
    /\ added[Len(added)] # added[Len(added) - 1]
    /\ added[Len(added)] # added[Len(added) - HISTORY_SIZE]
    /\ count = HISTORY_SIZE

\* C10: in every buffer state that holds a sample, getTemp(stepsAgo) /
\* getMoisture(stepsAgo) with stepsAgo >= count return the oldest sample held.
C10_FallbackOldest ==
    (pc = "hist" /\ count > 0) =>
        \A stepsAgo \in count .. (HISTORY_SIZE + 1) :
            /\ getTemp(History, stepsAgo) = added[Len(added) - count + 1][1]
            /\ getMoisture(History, stepsAgo) = added[Len(added) - count + 1][2]

\* C11: isReady() is false after 0 .. HISTORY_SIZE-1 calls of addReading
\* since the last init(), true after the HISTORY_SIZE-th and every later
\* call, false again after init(); it holds iff count = HISTORY_SIZE.  The
\* same for the scenario sketch.
C11_ReadyOnNthAdd ==
    pc = "hist" =>
        /\ isReady(History) <=> (Len(added) >= HISTORY_SIZE)
        /\ isReady(History) <=> (count = HISTORY_SIZE)
        /\ ScenIsReady(scenHistory) <=> (Len(added) >= HISTORY_SIZE)
        /\ ScenIsReady(scenHistory) <=> (scenHistory.count = HISTORY_SIZE)

\* the HISTORY_SIZE-th addReading has just made both buffers ready
C11_Witness ==
    /\ Len(added) = HISTORY_SIZE
    /\ "addReading" \in log
    /\ isReady(History)
    /\ ScenIsReady(scenHistory)

\* the oldest sample currently held
OldestHeld == added[Len(added) - count + 1]

\* the newest sample
NewestHeld == added[Len(added)]

\* C12: the trends are 0 while count < 2 and otherwise the newest sample
\* minus the oldest sample held (added count-1 calls before the newest),
\* also after the buffer has wrapped; in both sketches.
C12_Trend ==
    pc = "hist" =>
        IF Len(added) < 2
        THEN /\ getTempTrend(History) = 0
             /\ getMoistureTrend(History) = 0
             /\ tempTrend(scenHistory) = 0
             /\ moistureTrend(scenHistory) = 0
        ELSE /\ getTempTrend(History) = NewestHeld[1] - OldestHeld[1]
             /\ getMoistureTrend(History) = NewestHeld[2] - OldestHeld[2]
             /\ tempTrend(scenHistory) = NewestHeld[1] - OldestHeld[1]
             /\ moistureTrend(scenHistory) = NewestHeld[2] - OldestHeld[2]

\* a wrapped buffer whose oldest sample held is neither the newest, nor the
\* first sample ever added, nor the sample in slot 0
C12_Witness ==
    /\ Len(added) = HISTORY_SIZE + 2
    /\ getTempTrend(History) # 0
    /\ OldestHeld # added[1]
    /\ OldestHeld[1] # temperature[0]
    /\ moistureTrend(scenHistory) = NewestHeld[2] - OldestHeld[2]

\* sum of column c of the last n samples added
RECURSIVE SumLast(_, _)
SumLast(c, n) ==
    IF n = 0 THEN 0 ELSE SumLast(c, n - 1) + added[Len(added) - n + 1][c]

\* C13: the means are 0 when count = 0 and otherwise the arithmetic mean of
\* the count samples added last, for partly filled and wrapped buffers; in
\* both sketches.  (mean * count = sum, the mean being in twelfths.)
C13_Mean ==
    pc = "hist" =>
        IF count = 0
        THEN /\ getTempMean(History) = 0
             /\ getMoistureMean(History) = 0
             /\ tempMean(scenHistory) = 0
             /\ moistureMean(scenHistory) = 0
        ELSE /\ getTempMean(History) * count = SumLast(1, count) * MeanDenominator
             /\ getMoistureMean(History) * count = SumLast(2, count) * MeanDenominator
             /\ tempMean(scenHistory) * count = SumLast(1, count) * MeanDenominator
             /\ moistureMean(scenHistory) * count = SumLast(2, count) * MeanDenominator

\* a mean over a wrapped buffer from which a differing sample has been
\* overwritten
C13_Witness ==
    /\ Len(added) = HISTORY_SIZE + 1
    /\ added[1] # added[Len(added)]
    /\ getMoistureMean(History) * count = SumLast(2, count) * MeanDenominator
    /\ getMoistureMean(History) # getTempMean(History)
    /\ moistureMean(scenHistory) = getMoistureMean(History)

\* C38: after the same sequence of init() and addReading() calls the buffer
\* of the production sketch and the buffer of the scenario sketch have the
\* same count and write index and give the same isReady(), means, trends and
\* getTemp(k) / getMoisture(k) for every 0 <= k < count.
C38_HistoriesEquivalent ==
    /\ count = scenHistory.count
    /\ writeIndex = scenHistory.index
    /\ isReady(History) = ScenIsReady(scenHistory)
    /\ getTempMean(History) = tempMean(scenHistory)
    /\ getMoistureMean(History) = moistureMean(scenHistory)
    /\ getTempTrend(History) = tempTrend(scenHistory)
    /\ getMoistureTrend(History) = moistureTrend(scenHistory)
    /\ \A k \in 0 .. count - 1 :
           /\ getTemp(History, k) = ScenGetTemp(scenHistory, k)
           /\ getMoisture(History, k) = ScenGetMoisture(scenHistory, k)

\* both buffers have wrapped and hold a rising window: the newest sample is
\* in slot 0, the trends are 2 degrees and 20 units
C38_Witness ==
    /\ added = << <<21, 210>>, <<21, 210>>, <<21, 210>>, <<22, 220>>, <<23, 230>> >>
    /\ writeIndex = 1
    /\ scenHistory.index = 1
    /\ getTemp(History, 0) = 23
    /\ ScenGetTemp(scenHistory, 0) = 23
    /\ getTempTrend(History) = 2
    /\ moistureTrend(scenHistory) = 20

-----------------------------------------------------------------------------
(* Claims about the threshold fallback of the scenario sketch               *)

\* the rules of the cascade in their order: condition and outcome
\* (irrigate or not) for the reading and trend of the last cycle
CascadeRules ==
    << [applies |-> scen.moisture < 160, irrigate |-> TRUE, text |-> {TextCritical}],
       [applies |-> scen.moistureTrend < -50 /\ scen.moisture < 250,
        irrigate |-> TRUE, text |-> {TextRapidDrying}],
       [applies |-> scen.moistureTrend > 30, irrigate |-> FALSE, text |-> {TextRecovering}],
       [applies |-> scen.temp > 330 /\ scen.moistureTrend < -30,
        irrigate |-> TRUE, text |-> {TextHeatDrying}],
       [applies |-> -15 < scen.moistureTrend /\ scen.moistureTrend < 15,
        irrigate |-> thresholdDecision(scen.temp, scen.moisture),
        text |-> {TextStableLow, TextStableAdequate}],
       [applies |-> scen.moistureTrend < -20 /\ scen.moisture < 220,
        irrigate |-> TRUE, text |-> {TextModerateDrying}],
       [applies |-> TRUE, irrigate |-> FALSE, text |-> {TextMonitor}] >>

\* the first rule that applies
FirstRule ==
    CHOOSE r \in 1 .. 7 :
        /\ CascadeRules[r].applies
        /\ \A q \in 1 .. (r - 1) : ~CascadeRules[q].applies

\* a cycle has decided
Decided == pc = "scenario" /\ scen.decision # <<>>

\* C19: trendBasedDecision returns the outcome of the first rule that
\* applies, in the order (1) moisture < 160, (2) trend < -50 and moisture <
\* 250, (3) trend > 30, (4) temp > 33 and trend < -30, (5) -15 < trend < 15
\* (static threshold decides), (6) trend < -20 and moisture < 220, (7)
\* otherwise; and the text contains "IRRIGATE" exactly for the irrigate
\* outcomes.
C19_PriorityCascade ==
    Decided =>
        /\ scen.decision \in CascadeRules[FirstRule].text
        /\ scen.shouldIrrigate = CascadeRules[FirstRule].irrigate
        /\ scen.irrigationActive = CascadeRules[FirstRule].irrigate

\* moisture below the critical floor with a recovering trend: rule 1 and
\* rule 3 both apply, rule 1 has decided and the output is on
C19_Witness ==
    /\ Decided
    /\ scen.moisture < 160
    /\ scen.moistureTrend > 30
    /\ scen.decision = TextCritical
    /\ scen.shouldIrrigate
    /\ scen.relay = HIGH

\* C20: with moisture trend -60 and moisture 200 the decision is the
\* rapid-drying one (rule 2, irrigate) at every temperature; it is never
\* one of the stable-band rule.
C20_RapidDryingFirst ==
    (Decided /\ scen.moistureTrend = -60 /\ scen.moisture = 200) =>
        /\ scen.decision = TextRapidDrying
        /\ scen.decision \notin {TextStableLow, TextStableAdequate}
        /\ scen.shouldIrrigate

\* trend -60 and moisture 200 on a hot day, where the heat rule applies too
C20_Witness ==
    /\ Decided
    /\ scen.moistureTrend = -60
    /\ scen.moisture = 200
    /\ scen.temp > 330
    /\ scen.decision = TextRapidDrying
    /\ scen.irrigationActive

-----------------------------------------------------------------------------
(* Claims about the deployment-test sketch                                  *)

\* what predictIrrigation returns when Invoke() fails
PredictFailureValue == predictIrrigation(FALSE, NoProbability, tfl.threshold)

\* C18: the value predictIrrigation returns when the inference fails is
\* never the value it returns after a successful inference.
C18_FailureDistinct ==
    (pc = "deploy" /\ tfl.input # <<>> /\ tfl.invokeOk) =>
        tfl.result # PredictFailureValue

TrendIrrigates(moist, trend, temp) ==
    indexOf(trendBasedDecision(moist, trend, temp), TextIrrigate) >= 0

\* C27: at moisture 220 and any one temperature, where thresholdDecision
\* has its single answer, trendBasedDecision decides to irrigate for a
\* falling trend and not to irrigate for a rising one: whatever a cycle at
\* moisture 220 decided, another trend at the same temperature gives the
\* opposite decision.
C27_TrendChangesDecision ==
    (Decided /\ scen.moisture = 220) =>
        /\ \E falling \in TrendTrends, rising \in TrendTrends :
              /\ falling < rising
              /\ TrendIrrigates(220, falling, scen.temp)
              /\ ~TrendIrrigates(220, rising, scen.temp)
        /\ \E trend \in TrendTrends :
              TrendIrrigates(220, trend, scen.temp) # scen.shouldIrrigate

\* at moisture 220 and 29 degrees the static threshold says irrigate and a
\* rising trend has decided against it
C27_Witness ==
    /\ Decided
    /\ scen.moisture = 220
    /\ scen.temp = 299
    /\ thresholdDecision(scen.temp, scen.moisture)
    /\ scen.moistureTrend > 30
    /\ ~scen.shouldIrrigate
    /\ TrendIrrigates(220, 0, scen.temp)


-----------------------------------------------------------------------------
(* Claims about the scenario sketch replaying its built-in scenarios        *)
(* (SpecScen).                                                              *)

\* a step of some scenario has been replayed
StepRan == pc = "scenario" /\ scen.pc = "loop" /\ scenHistory.count > 0

\* the scenario of the last replayed step, and the number (1..8) of its reading
RanScenario ==
    IF scen.currentStep = 0
    THEN (scen.currentScenario + NUM_SCENARIOS - 1) % NUM_SCENARIOS
    ELSE scen.currentScenario

RanStep == IF scen.currentStep = 0 THEN SCENARIO_STEPS ELSE scen.currentStep

\* the last replayed step made a decision, and it was an irrigate decision
IrrigateDecision == scen.decision # <<>> /\ indexOf(scen.decision, TextIrrigate) >= 0

\* C24: in the scenarios HOT DAY, SUDDEN HEATWAVE and CRITICAL DRY every step
\* from the 4th reading to the 8th decides to irrigate, and the relay is HIGH
\* from the 4th reading until the end of the scenario.
C24_IrrigateGroup ==
    ( /\ StepRan
      /\ RanScenario \in {SCENARIO_HOT_DAY, SCENARIO_SUDDEN_HEATWAVE,
                           SCENARIO_CRITICAL_DRY}
      /\ RanStep >= HISTORY_SIZE )
    => (IrrigateDecision /\ scen.relay = HIGH)

\* HOT DAY at its 4th reading (250, trend -70, 33.5 degrees): the heat rule
\* decides, the relay goes HIGH
C24_Witness ==
    /\ StepRan
    /\ RanScenario = SCENARIO_HOT_DAY
    /\ RanStep = HISTORY_SIZE
    /\ scen.decision = TextHeatDrying
    /\ scen.relay = HIGH

\* C25: in the scenarios NORMAL DAY, RECOVERY and MORNING DEW no step decides
\* to irrigate and the relay stays LOW for the whole scenario.
C25_NoIrrigationGroup ==
    ( /\ StepRan
      /\ RanScenario \in {SCENARIO_NORMAL_DAY, SCENARIO_RECOVERY,
                           SCENARIO_MORNING_DEW} )
    => (~IrrigateDecision /\ scen.relay = LOW)

C25_Witness ==
    /\ StepRan
    /\ RanScenario = SCENARIO_RECOVERY
    /\ RanStep = HISTORY_SIZE
    /\ scen.decision = TextRecovering
    /\ scen.relay = LOW

\* C26: in the scenario NIGHT COOLING no step decides to irrigate and the
\* relay stays LOW for the whole scenario.
C26_NightCooling ==
    (StepRan /\ RanScenario = SCENARIO_NIGHT_COOLING)
    => (~IrrigateDecision /\ scen.relay = LOW)

\* the samples the history holds after the last replayed step are the last
\* readings of the scenario being replayed, newest first
HoldsOnlyCurrentScenario ==
    /\ scenHistory.count = (IF RanStep < HISTORY_SIZE THEN RanStep ELSE HISTORY_SIZE)
    /\ scenHistory.index = RanStep % HISTORY_SIZE
    /\ \A k \in 0 .. scenHistory.count - 1 :
           /\ ScenGetTemp(scenHistory, k) = scenarios[RanScenario + 1].temp[RanStep - k]
           /\ ScenGetMoisture(scenHistory, k) = scenarios[RanScenario + 1].moisture[RanStep - k]

\* the last replayed step produced a decision
Decision == scen.decision # <<>>

\* C33: the first step of every scenario re-initialises the history and
\* switches irrigation off, so the history holds samples of the current
\* scenario only, the trend of every decision is computed from them, exactly
\* the steps 4 to 8 of a scenario produce a decision, and the scenarios are
\* replayed in the cyclic order 0..NUM_SCENARIOS-1 with currentStep in 0..7
\* whenever it indexes the scenario data.
C33_ScenarioIsolation ==
    /\ []((pc = "scenario" /\ scen.pc = "loop") =>
            /\ scen.currentStep \in 0 .. SCENARIO_STEPS - 1
            /\ scen.currentScenario \in 0 .. NUM_SCENARIOS - 1)
    /\ [](StepRan =>
            /\ HoldsOnlyCurrentScenario
            /\ RanStep = 1 => (~scen.irrigationActive /\ scen.relay = LOW)
            /\ Decision <=> RanStep >= HISTORY_SIZE
            /\ Decision =>
                 scen.moistureTrend =
                     scenarios[RanScenario + 1].moisture[RanStep]
                       - scenarios[RanScenario + 1].moisture[RanStep - (HISTORY_SIZE - 1)])
    /\ [][ (pc = "scenario" /\ scen.pc = "loop" /\ scen' # scen) =>
              IF scen.currentStep = SCENARIO_STEPS - 1
              THEN /\ scen'.currentStep = 0
                   /\ scen'.currentScenario = (scen.currentScenario + 1) % NUM_SCENARIOS
              ELSE /\ scen'.currentStep = scen.currentStep + 1
                   /\ scen'.currentScenario = scen.currentScenario ]_vars

\* all seven scenarios have been replayed and HOT DAY, replayed for the second
\* time, decides at its 4th reading on its own samples (250 - 320 = -70)
C33_Witness ==
    /\ StepRan
    /\ clock > NUM_SCENARIOS * SCENARIO_STEPS * STEP_INTERVAL
    /\ RanScenario = SCENARIO_HOT_DAY
    /\ RanStep = HISTORY_SIZE
    /\ Decision
    /\ scen.moistureTrend = -70

-----------------------------------------------------------------------------
(* Claims about both sketches that decide on the history (SpecGate).        *)

\* what a pass of the production loop() prints when it reaches a decision
DecisionMessages ==
    {"INFERENCE RESULTS", "Inference failed!", "Using fallback rules...",
     "Using fallback rules (no model)..."}

\* the step is a pass of the production loop() that extracted features,
\* ran the inference or the fallback, or switched the pump ON
ProductionDecides ==
    /\ pc = "loop"
    /\ \/ probability' # NoProbability
       \/ log' \cap DecisionMessages # {}
       \/ ~pump.isRunning /\ pump'.isRunning

\* the step is a step of the scenario sketch that called trendBasedDecision
\* and controlIrrigation, or moved the relay to HIGH
ScenarioDecides ==
    /\ pc = "scenario"
    /\ scen' # scen
    /\ \/ scen'.decision # <<>>
       \/ scen.relay = LOW /\ scen'.relay = HIGH

\* C23: the production sketch extracts features, infers or falls back and
\* calls makeIrrigationDecision only in cycles whose history holds
\* HISTORY_SIZE readings, the scenario sketch calls trendBasedDecision and
\* controlIrrigation only then; the pump is never ON with fewer than
\* HISTORY_SIZE readings stored since the last init().
C23_ColdBufferGate ==
    /\ [][ProductionDecides => count' = HISTORY_SIZE]_vars
    /\ [][ScenarioDecides => scenHistory'.count = HISTORY_SIZE]_vars
    /\ [](pc = "loop" /\ pump.isRunning => count = HISTORY_SIZE)
    /\ [](pc = "scenario" /\ scen.relay = HIGH => scenHistory.count = HISTORY_SIZE)

\* the production pump running, switched on by a decision on a full history
C23_Witness ==
    /\ pc = "loop"
    /\ pump.isRunning
    /\ relay = HIGH
    /\ probability # NoProbability
    /\ count = HISTORY_SIZE

-----------------------------------------------------------------------------
(* Claims about the production sketch across a wrap of the counter          *)
(* (SpecWrap).                                                              *)

\* the counter has wrapped in this session
Wrapped == mono.now >= cfg.clockModulus

\* the four timing tests at a pass d ms from now give what they would give
\* on the clock that never wraps
SameAsUnbounded(d) ==
    LET now == UAdd(clock, d)
        t   == mono.now + d
    IN  /\ ~pump.isRunning =>
             canTurnOn(pump, now) = (t - mono.lastOffTime >= cfg.minOffTime)
        /\ shouldForceOff(pump, now)
             = (pump.isRunning /\ t - mono.runStartTime > cfg.maxRunTime)
        /\ turnOff(Controller, now).pump.isRunning
             = (pump.isRunning /\ ~(t - mono.runStartTime >= cfg.minOnTime))
        /\ (USub(now, lastReadingTime) >= cfg.readingInterval)
             = (t - mono.lastReadingTime >= cfg.readingInterval)

\* C22: in a session in which the counter wraps, canTurnOn, the min-on test of
\* turnOff, shouldForceOff and the reading-interval test of loop() give at
\* every pass the outcome an unbounded monotonic clock gives, whatever the
\* time since the timestamp was recorded (the 0 of init() included).
C22_WrapTolerant ==
    pc = "loop" => \A d \in PassSteps : SameAsUnbounded(d)

-----------------------------------------------------------------------------
(* Claims about the plant-health sketch (SpecPlant).                        *)

\* predict has been called
Predicted == pc = "plant" /\ plant.rawFeatures # <<>>

\* round(n / d) for d > 0: the nearest integer, halves away from zero
RoundDiv(n, d) ==
    IF n >= 0 THEN (2 * n + d) \div (2 * d) ELSE -((2 * (-n) + d) \div (2 * d))

\* round(normalized / INPUT_SCALE) + INPUT_ZERO_POINT for feature i of the
\* last call
RoundedQuantization(i) ==
    RoundDiv((plant.rawFeatures[i] - plant.header.FEATURE_MEANS[i])
                 * plant.header.INPUT_SCALE_INV,
             plant.header.FEATURE_STDS[i])
        + plant.header.INPUT_ZERO_POINT

\* C28: the value predict writes to the int8 input tensor for each feature is
\* round(normalized / INPUT_SCALE) + INPUT_ZERO_POINT clamped to [-128, 127],
\* for every raw value.
C28_InputQuantization ==
    Predicted =>
        \A i \in 1..NUM_FEATURES :
            plant.tensor[i] = constrain(RoundedQuantization(i), INT8_MIN, INT8_MAX)

\* feature i of the last call lies at the centre of its training range: at
\* the feature mean, or within one standard deviation of it
AtCentre(i) ==
    LET off == plant.rawFeatures[i] - plant.header.FEATURE_MEANS[i]
    IN  off <= plant.header.FEATURE_STDS[i] /\ -off <= plant.header.FEATURE_STDS[i]

\* the distance between dequantized and normalized value of feature i is at
\* most INPUT_SCALE: |(q - zp) / inv - off / std| <= 1 / inv, cleared of
\* fractions
WithinOneStep(i) ==
    LET off  == plant.rawFeatures[i] - plant.header.FEATURE_MEANS[i]
        diff == (plant.tensor[i] - plant.header.INPUT_ZERO_POINT) * plant.header.FEATURE_STDS[i]
                    - off * plant.header.INPUT_SCALE_INV
    IN  diff <= plant.header.FEATURE_STDS[i] /\ -diff <= plant.header.FEATURE_STDS[i]

\* C29: for a feature value at the centre of its training range, the value
\* predict quantizes, dequantized with the same scale and zero point, lies
\* within one INPUT_SCALE of the normalized value.
C29_RoundTrip ==
    Predicted => \A i \in 1..NUM_FEATURES : AtCentre(i) => WithinOneStep(i)

\* a call with every feature near its mean and none on a quantization level
C29_Witness ==
    /\ Predicted
    /\ plant.rawFeatures = <<510, 490, 403, 66, 447, 251>>
    /\ plant.header.INPUT_SCALE_INV = 25
    /\ plant.header.INPUT_ZERO_POINT = 7
    /\ \A i \in 1..NUM_FEATURES : AtCentre(i)
    /\ plant.tensor[1] = 8

-----------------------------------------------------------------------------
(* Claims about the production sketch with its scheduling (SpecLive).       *)

\* the pump is running and its MAX_PUMP_RUN_TIME ends within the time the
\* model follows the sketch
RunEndsInSession ==
    /\ pc = "loop"
    /\ pump.isRunning
    /\ mono.runStartTime + MAX_PUMP_RUN_TIME < env.until

\* C30: whenever the pump is ON it is eventually OFF, whatever sensors and
\* model do (a sensor failing on every later cycle and a probability that
\* stays high included), as long as loop() keeps being executed and the clock
\* advances.
C30_PumpShutOff == RunEndsInSession ~> ~pump.isRunning

\* the pump switched off by the safety check of a pass that took no reading,
\* after a run longer than MAX_PUMP_RUN_TIME
C30_Witness ==
    /\ pc = "loop"
    /\ ~pump.isRunning
    /\ "reading" \notin log
    /\ "PUMP OFF" \in log
    /\ mono.lastOffTime - mono.runStartTime > MAX_PUMP_RUN_TIME



-----------------------------------------------------------------------------
(* Claims about the controller inside the production sketch (Spec).        *)

\* the three timestamps of the controller
Timestamps(p) == <<p.lastOnTime, p.lastOffTime, p.runStartTime>>

\* a pass of loop() switched the pump on / off
OnTransition == ~pump.isRunning /\ pump'.isRunning
OffTransition == pump.isRunning /\ ~pump'.isRunning

\* C31: every ON transition sets runStartTime = lastOnTime = now and every
\* OFF transition, normal or forced, sets lastOffTime = now; nothing else
\* changes a timestamp; so lastOnTime = runStartTime always, and while the
\* pump runs runStartTime is the time of the most recent ON transition,
\* which a turnOn() on the running pump would not restart.
C31_Timestamps ==
    /\ [][OnTransition => /\ pump'.runStartTime = clock'
                          /\ pump'.lastOnTime = clock'
                          /\ pump'.lastOffTime = pump.lastOffTime]_vars
    /\ [][OffTransition => /\ pump'.lastOffTime = clock'
                           /\ pump'.runStartTime = pump.runStartTime
                           /\ pump'.lastOnTime = pump.lastOnTime]_vars
    /\ [][pump'.isRunning = pump.isRunning => Timestamps(pump') = Timestamps(pump)]_vars
    /\ [](pump.lastOnTime = pump.runStartTime)
    /\ [](pump.isRunning =>
            /\ pump.runStartTime = mono.runStartTime % cfg.clockModulus
            /\ \A d \in PassSteps : turnOn(Controller, UAdd(clock, d)).pump = pump)

\* the pump runs for the second time, and a later pass found it running
C31_Witness ==
    /\ pump.isRunning
    /\ pump.lastOffTime > 0
    /\ pump.runStartTime > pump.lastOffTime
    /\ clock > pump.runStartTime


\* the controller and its two output pins
Actuator(m) == <<m.pump, m.relay, m.led>>

\* C32: after setup() the relay output is HIGH exactly while pump.isRunning
\* and the status LED equals the relay output; a transition the min-off or
\* the min-on guard rejects changes neither isRunning nor the outputs.
C32_OutputMirrorsState ==
    /\ [](pc = "loop" => /\ (relay = HIGH) = pump.isRunning
                         /\ led = relay)
    /\ [][ "Waiting for minimum off time" \in log' => UNCHANGED <<pump, relay, led>> ]_vars
    /\ [](pc = "loop" =>
            \A d \in PassSteps :
                /\ USub(UAdd(clock, d), pump.runStartTime) < cfg.minOnTime =>
                       Actuator(turnOff(Controller, UAdd(clock, d))) = Actuator(Controller)
                /\ (~pump.isRunning /\ ~canTurnOn(pump, UAdd(clock, d))) =>
                       \A prob \in env.modelOutputs :
                           Actuator(makeIrrigationDecision(Controller, prob, UAdd(clock, d)))
                               = Actuator(Controller))

\* a pass found the pump switched off less than MIN_PUMP_OFF_TIME ago and
\* refused to start it: the pump is off and both outputs are LOW
C32_Witness ==
    /\ pc = "loop"
    /\ "Waiting for minimum off time" \in log
    /\ pump.lastOffTime > 0
    /\ ~pump.isRunning
    /\ relay = LOW
    /\ led = LOW


-----------------------------------------------------------------------------
(* Claims about the start-up of the two test sketches (SpecStartup).       *)

\* predictIrrigation() / predict() has been invoked
TdPredicted == pc = "deploy" /\ tfl.input # <<>>
PlantPredicted == pc = "plant" /\ plant.rawFeatures # <<>>

\* C34: in the plant-health sketch a schema mismatch or a failed
\* AllocateTensors(), and in the deployment-test sketch a failed modelInit(),
\* end in a halt inside setup(): setup() never returns and predict() /
\* predictIrrigation() is never invoked; neither sketch runs inference on an
\* interpreter that has not been initialised.
C34_StartupFailureHalts ==
    /\ [][ (pc = "deploy" /\ tfl.pc = "setup" /\ ~tfl'.ready) => tfl'.pc = "halted" ]_vars
    /\ [][ (pc = "plant" /\ plant.pc = "setup" /\ ~plant'.ready) => plant'.pc = "halted" ]_vars
    /\ [][ (pc = "deploy" /\ tfl.pc = "halted") => tfl' = tfl ]_vars
    /\ [][ (pc = "plant" /\ plant.pc = "halted") => plant' = plant ]_vars
    /\ []((pc = "deploy" /\ tfl.pc = "halted") => ~TdPredicted)
    /\ []((pc = "plant" /\ plant.pc = "halted") => ~PlantPredicted)
    /\ [](TdPredicted => tfl.ready)
    /\ [](PlantPredicted => plant.ready)
    /\ []((pc = "deploy" /\ tfl.pc \in {"runTests", "loop"}) => tfl.ready)
    /\ []((pc = "plant" /\ plant.pc \in {"runTests", "loop"}) => plant.ready)

\* modelInit() failed: the deployment-test sketch sits in the while(1) of
\* setup() and has predicted nothing
C34_Witness ==
    /\ pc = "deploy"
    /\ tfl.pc = "halted"
    /\ ~tfl.ready
    /\ tfl.test = 0
    /\ tfl.input = <<>>


\* the pass of loop() being taken made a sensor acquisition attempt
Attempt == pc = "loop" /\ "reading" \in log'

\* the pass added nothing, or one sample, to the history
AtMostOneSample ==
    \/ UNCHANGED histVars
    \/ \E temp \in env.dhtTemps, raw \in env.adcValues :
           HistoryNext = addReading(History, temp, readSoilMoistureScaled(raw))

\* C36: two consecutive sensor acquisition attempts of loop() are at least
\* READING_INTERVAL_MS apart, whether or not the earlier one gave a valid
\* reading, and an attempt adds at most one sample to the history (a pass
\* without an attempt adds none).
C36_ReadingCadence ==
    /\ [][ Attempt => /\ mono'.now - mono.lastReadingTime >= READING_INTERVAL_MS
                      /\ mono'.lastReadingTime = mono'.now
                      /\ lastReadingTime' = clock'
                      /\ AtMostOneSample ]_vars
    /\ [][ (pc = "loop" /\ ~Attempt) => UNCHANGED <<histVars, lastReadingTime>> ]_vars

\* the first attempt gave an invalid reading; the second came exactly
\* READING_INTERVAL_MS later and was invalid again: nothing is stored
C36_Witness ==
    /\ pc = "loop"
    /\ "reading" \in log
    /\ "Invalid readings - skipping this cycle" \in log
    /\ count = 0
    /\ mono.lastReadingTime = SETUP_DELAY_MS + READING_INTERVAL_MS
    /\ mono.now = mono.lastReadingTime

-----------------------------------------------------------------------------
(* Claims about the fallback of the production sketch (SpecEnv).           *)

\* the pass of loop() being taken decided through fallbackDecision
FallbackCycle ==
    /\ pc = "loop"
    /\ log' \cap {"Using fallback rules...", "Using fallback rules (no model)..."} # {}

\* what fallbackDecision said about the reading the pass took
FallbackSaidIrrigate == fallbackDecision(getTemp(HistoryNext, 0), getMoisture(HistoryNext, 0))

\* C37: a cycle decided through fallbackDecision hands makeIrrigationDecision
\* exactly 0.9 (irrigate) or 0.1 (do not irrigate), never a value between the
\* thresholds; so, unless the max run time forces the pump off, after the
\* cycle the pump is ON if fallback said irrigate and it was running or the
\* min-off guard allowed the start, and OFF if fallback said no and it was
\* off or the min-on guard allowed the stop: only a dwell-time guard keeps
\* the pump from following the fallback.
C37_FallbackNoDeadBand ==
    [][ FallbackCycle =>
          /\ probability' \in {10, 90}
          /\ (probability' = 90) = FallbackSaidIrrigate
          /\ probability' > THRESHOLD_IRRIGATE \/ probability' < THRESHOLD_STOP
          /\ IF shouldForceOff(pump, clock')
             THEN ~pump'.isRunning
             ELSE IF FallbackSaidIrrigate
             THEN pump'.isRunning = (pump.isRunning \/ canTurnOn(pump, clock'))
             ELSE pump'.isRunning =
                      (pump.isRunning /\ USub(clock', pump.runStartTime) < cfg.minOnTime) ]_vars

\* the model started the pump, then inference failed and the fallback, saying
\* no, stopped it
C37_Witness ==
    /\ pc = "loop"
    /\ "Using fallback rules..." \in log
    /\ "Low probability - stopping irrigation" \in log
    /\ probability = 10
    /\ ~pump.isRunning
    /\ pump.lastOffTime = clock

-----------------------------------------------------------------------------
(* Claims about the first pass of loop() (SpecBoot).                       *)

\* no pass of loop() has run since setup()
FirstPass == pc = "loop" /\ "setup" \in log

\* C35: whatever millis() returned at the end of setup(), values below
\* READING_INTERVAL_MS (for which the subtraction underflows) included, the
\* first pass of loop() takes a sensor reading.
C35_FirstReadingImmediate ==
    /\ [](FirstPass => USub(clock, lastReadingTime) = READING_INTERVAL_MS)
    /\ [][ FirstPass => ("reading" \in log' /\ lastReadingTime' = clock') ]_vars

\* setup() ended below READING_INTERVAL_MS, lastReadingTime underflowed, and
\* the first pass, made without waiting, took the reading
C35_Witness ==
    /\ pc = "loop"
    /\ env.setupMillis = {READING_INTERVAL_MS - 1}
    /\ clock = READING_INTERVAL_MS - 1
    /\ lastReadingTime = clock
    /\ "reading" \in log
    /\ count + (IF "Invalid readings - skipping this cycle" \in log THEN 1 ELSE 0) = 1


-----------------------------------------------------------------------------
(* Claims about the PWM module (SpecPwm).                                  *)

\* the last call was PWM_initChannel(config) in a build with the module enabled
ChannelInitialised ==
    pc = "pwm" /\ hal.PWM_ENABLED = STD_ON /\ hal.call = "PWM_initChannel"

\* C39: after PWM_initChannel(config) with the PWM module enabled, the
\* frequency of the channel is config->frequency and its resolution is
\* config->resolution.
C39_PwmFrequency ==
    ChannelInitialised =>
        /\ hal.channels[hal.config.channel].frequency = hal.config.frequency
        /\ hal.channels[hal.config.channel].resolution = hal.config.resolution

=========================================================================
